---------------------------- MODULE Spec2Model ----------------------------
(***************************************************************************)
(* Model of the HX711 weighing pipeline of                                 *)
(* src/src/cmd/weight_sensor_test.rs: the capacity-limited queues, the     *)
(* ADC-to-weight transform (f32 arithmetic), the stability check, the      *)
(* warm-up in WeightProcessor::new, the sampling thread of loop_read, the  *)
(* control operations set_tare_weight / set_transform_factor, and the      *)
(* mpsc::sync_channel(1) between the sampling thread and main's loop;      *)
(* with it the conversion at the end of HX711::read, Status::from of the   *)
(* AHT30 driver and the step index of the ULN2003A driver.                 *)
(***************************************************************************)
EXTENDS Integers, Sequences, FiniteSets, TLC

(***************************************************************************)
(* Bounds of the model.                                                    *)
(***************************************************************************)
\* capacities bq_cap, sq_cap passed to WeightProcessor::new range over 0..MaxCap
MaxCap == 1
\* number of steady-state cycles the sampling thread is followed for
MaxCycles == 2
\* number of control calls (set_tare_weight / set_transform_factor) followed
MaxCtl == 1
\* number of pushes followed in the stand-alone queue_push specification
MaxPush == 5

(***************************************************************************)
(* Program constants.                                                      *)
(***************************************************************************)
\* for _ in 0..10 (warm-up reads of WeightProcessor::new)
WarmupReads == 10
\* mpsc::sync_channel::<(i32, WeightStatus)>(1)
ChanCap == 1
\* else if weight > 5000
MaxWeight == 5000
\* i32::MAX
I32Max == 2147483647

\* i32::MIN
I32Min == (-I32Max) - 1

\* 2^24: an f32 significand has 24 bits
TwoTo24 == 16777216

\* 2^25
TwoTo25 == 33554432

(***************************************************************************)
(* Integer helpers.                                                        *)
(***************************************************************************)
RECURSIVE Pow2(_)
Pow2(n) == IF n = 0 THEN 1 ELSE 2 * Pow2(n - 1)

Abs(x) == IF x < 0 THEN -x ELSE x

\* Rust's integer division truncates toward zero (TLA+'s \div floors)
TruncDiv(a, b) ==
    IF b > 0
    THEN IF a >= 0 THEN a \div b ELSE (a + (b - 1)) \div b
    ELSE IF a >= 0 THEN -(a \div Abs(b)) ELSE Abs(a) \div Abs(b)

\* the sum of the entries (the two halves are summed separately, which keeps
\* the evaluation shallow on long windows)
RECURSIVE SeqSum(_)
SeqSum(s) ==
    IF s = <<>> THEN 0
    ELSE IF Len(s) = 1 THEN s[1]
    ELSE LET half == Len(s) \div 2
         IN  SeqSum(SubSeq(s, 1, half)) + SeqSum(SubSeq(s, half + 1, Len(s)))

(***************************************************************************)
(* f32 values.  A finite f32 is <<sgn, m, e>> and stands for               *)
(* (-1)^sgn * m * 2^e with 0 <= m < 2^24; it is kept normalised (m odd, or *)
(* m = 0 and e = 0), so equal values have equal representations.  +0.0 is  *)
(* <<0,0,0>> and -0.0 is <<1,0,0>>.  The exponents that occur in the model *)
(* stay far from the subnormal and overflow ranges of f32.                 *)
(***************************************************************************)
\* The recursive parts are functions of a tuple, so that their arguments are
\* evaluated once, before the application.
F32NormFn[t \in {0, 1} \X Nat \X Int] ==
    IF t[2] = 0 THEN <<t[1], 0, 0>>
    ELSE IF t[2] % 2 = 0 THEN F32NormFn[<<t[1], t[2] \div 2, t[3] + 1>>]
    ELSE t

F32Norm(s, m, e) == F32NormFn[<<s, m, e>>]

\* round-to-nearest-even of q * 2^e (followed by a nonzero remainder when
\* sticky = 1) to at most 24 bits; t = <<s, q, e, sticky>>
F32RoundBitsFn[t \in {0, 1} \X Nat \X Int \X {0, 1}] ==
    IF t[2] < TwoTo24 THEN
        \* fits as it is (callers with a remainder supply 25 bits)
        F32Norm(t[1], t[2], t[3])
    ELSE IF t[2] < TwoTo25 THEN
        LET mant == t[2] \div 2
            up   == t[2] % 2 = 1 /\ (t[4] = 1 \/ mant % 2 = 1)
        IN  F32Norm(t[1], IF up THEN mant + 1 ELSE mant, t[3] + 1)
    ELSE F32RoundBitsFn[<<t[1], t[2] \div 2, t[3] + 1,
                          IF t[4] = 1 \/ t[2] % 2 = 1 THEN 1 ELSE 0>>]

F32RoundBits(s, q, e, sticky) == F32RoundBitsFn[<<s, q, e, sticky>>]

F32Zero == <<0, 0, 0>>

F32IsZero(f) == f[2] = 0

\* `x as f32` for an i32 x (exact below 2^24, rounded to nearest even above)
I32ToF32Fn[x \in Int] ==
    IF x = 0 THEN F32Zero
    ELSE F32RoundBits(IF x < 0 THEN 1 ELSE 0, Abs(x), 0, 0)

I32ToF32(x) == I32ToF32Fn[x]

\* binary long division: extends the quotient q (remainder r < d) by
\* fraction bits until it has 25 significant bits; t = <<q, r, d, k>> and the
\* next bit is (2r) \div d, which is 0 or 1 because r < d
F32DivBitsFn[t \in Nat \X Nat \X Nat \X Nat] ==
    IF t[1] >= TwoTo24 THEN <<t[1], t[2], t[4]>>
    ELSE F32DivBitsFn[<<2 * t[1] + (2 * t[2]) \div t[3], (2 * t[2]) % t[3],
                        t[3], t[4] + 1>>]

\* IEEE-754 single precision a / b for finite a and finite nonzero b;
\* p = <<a, b>>
F32DivFn[p \in ({0, 1} \X Nat \X Int) \X ({0, 1} \X Nat \X Int)] ==
    LET a == p[1]
        b == p[2]
        s == (a[1] + b[1]) % 2
    IN  IF a[2] = 0 THEN <<s, 0, 0>>
        ELSE LET qr == F32DivBitsFn[<<a[2] \div b[2], a[2] % b[2], b[2], 0>>]
             IN  F32RoundBits(s, qr[1], a[3] - b[3] - qr[3],
                              IF qr[2] # 0 THEN 1 ELSE 0)

F32Div(a, b) == F32DivFn[<<a, b>>]

\* f32::round (half away from zero) followed by the saturating `as i32`
F32RoundToI32Fn[f \in {0, 1} \X Nat \X Int] ==
    LET s == f[1]
        m == f[2]
        e == f[3]
        mag == IF e >= 0
               THEN IF e >= 31 \/ m > I32Max \div Pow2(e) THEN I32Max
                    ELSE m * Pow2(e)
               ELSE IF -e >= 26 THEN 0
                    ELSE (2 * m + Pow2(-e)) \div (2 * Pow2(-e))
    IN  IF s = 0 THEN mag
        ELSE IF e >= 0 /\ mag = I32Max THEN I32Min ELSE -mag

F32RoundToI32(f) == F32RoundToI32Fn[f]

(***************************************************************************)
(* Pure functions of WeightProcessor.                                      *)
(***************************************************************************)
\* VecDeque::pop_front repeated n times (a pop of an empty queue is a no-op)
RECURSIVE PopFrontN(_, _)
PopFrontN(queue, n) ==
    IF n = 0 THEN queue
    ELSE IF queue = <<>> THEN PopFrontN(queue, n - 1)
    ELSE PopFrontN(Tail(queue), n - 1)

\* WeightProcessor::queue_push
queue_push(queue, cap, value) ==
    LET kept == IF Len(queue) >= cap
                THEN PopFrontN(queue, Len(queue) - cap + 1)
                ELSE queue
    IN  Append(kept, value)

\* an average that rounds toward minus infinity (div_euclid)
queue_average_Floors(queue) ==
    IF Len(queue) > 0 THEN SeqSum(queue) \div Len(queue) ELSE 0

\* WeightProcessor::queue_average
queue_average(queue) ==
    IF Len(queue) > 0 THEN TruncDiv(SeqSum(queue), Len(queue)) ELSE 0

\* anyhow::Result<i32> of adc_data_transform
Ok(v) == [ok |-> TRUE, v |-> v]

Err == [ok |-> FALSE, v |-> 0]

\* WeightProcessor::adc_data_transform; t = <<adc_data, zero_offset,
\* transform_factor>>
adc_data_transform_fn[t \in Int \X Int \X ({0, 1} \X Nat \X Int)] ==
    IF ~F32IsZero(t[3])
    THEN LET valid_adc_data == t[1] - t[2]
             weight == F32Div(I32ToF32(valid_adc_data), t[3])
         IN  Ok(F32RoundToI32(weight))
    ELSE Err

\* a conversion of the gross reading, the zero offset left out
adc_data_transform_IgnoresZeroOffset(adc_data, zero_offset, transform_factor) ==
    adc_data_transform_fn[<<adc_data, 0, transform_factor>>]

\* a conversion that leaves out f32::round: `weight as i32` truncates
adc_data_transform_Truncates(adc_data, zero_offset, transform_factor) ==
    IF F32IsZero(transform_factor) THEN Err
    ELSE LET weight == F32Div(I32ToF32(adc_data - zero_offset), transform_factor)
             mag == IF weight[3] >= 0 THEN weight[2] * Pow2(weight[3])
                    ELSE IF -weight[3] >= 25 THEN 0
                    ELSE weight[2] \div Pow2(-weight[3])
         IN  Ok(IF weight[1] = 0 THEN mag ELSE -mag)

\* a zero test on the stored bit pattern, which -0.0 passes: the division
\* then yields an infinity (NaN for 0.0 / -0.0) and `as i32` saturates it
adc_data_transform_ComparesBits(adc_data, zero_offset, transform_factor) ==
    IF transform_factor = F32Zero THEN Err
    ELSE IF F32IsZero(transform_factor)
         THEN Ok(IF adc_data = zero_offset THEN 0
                 ELSE IF (adc_data > zero_offset) = (transform_factor[1] = 0)
                      THEN I32Max
                      ELSE I32Min)
    ELSE adc_data_transform_fn[<<adc_data, zero_offset, transform_factor>>]

adc_data_transform(adc_data, zero_offset, transform_factor) ==
    adc_data_transform_fn[<<adc_data, zero_offset, transform_factor>>]

\* the for loop of is_stable over the queue, tmp_weight = <<>> standing for None
RECURSIVE is_stable_loop(_, _, _, _)
is_stable_loop(items, tmp_weight, zero_offset, transform_factor) ==
    IF items = <<>> THEN TRUE
    ELSE LET r == adc_data_transform(Head(items), zero_offset, transform_factor)
         IN  IF ~r.ok THEN FALSE
             ELSE IF tmp_weight # <<>> /\ r.v # tmp_weight[1] THEN FALSE
             ELSE is_stable_loop(Tail(items),
                                 IF tmp_weight = <<>> THEN <<r.v>> ELSE tmp_weight,
                                 zero_offset, transform_factor)

\* a loop that takes weights within one gram of the first as equal
RECURSIVE is_stable_loop_Tolerant(_, _, _, _)
is_stable_loop_Tolerant(items, tmp_weight, zero_offset, transform_factor) ==
    IF items = <<>> THEN TRUE
    ELSE LET r == adc_data_transform(Head(items), zero_offset, transform_factor)
         IN  IF ~r.ok THEN FALSE
             ELSE IF tmp_weight # <<>> /\ Abs(r.v - tmp_weight[1]) > 1 THEN FALSE
             ELSE is_stable_loop_Tolerant(Tail(items),
                                          IF tmp_weight = <<>> THEN <<r.v>>
                                                               ELSE tmp_weight,
                                          zero_offset, transform_factor)

\* a classifier with a debounce band of one gram
is_stable_WithinOneGram(adc_data_stable_queue, cap, zero_offset, transform_factor) ==
    IF Len(adc_data_stable_queue) < cap THEN FALSE
    ELSE is_stable_loop_Tolerant(adc_data_stable_queue, <<>>, zero_offset,
                                 transform_factor)

\* a loop that goes on to the next entry when a transform fails
RECURSIVE is_stable_loop_Continues(_, _, _, _)
is_stable_loop_Continues(items, tmp_weight, zero_offset, transform_factor) ==
    IF items = <<>> THEN TRUE
    ELSE LET r == adc_data_transform(Head(items), zero_offset, transform_factor)
         IN  IF ~r.ok
             THEN is_stable_loop_Continues(Tail(items), tmp_weight, zero_offset,
                                           transform_factor)
             ELSE IF tmp_weight # <<>> /\ r.v # tmp_weight[1] THEN FALSE
             ELSE is_stable_loop_Continues(Tail(items),
                                           IF tmp_weight = <<>> THEN <<r.v>>
                                                                ELSE tmp_weight,
                                           zero_offset, transform_factor)

\* a classifier that skips the entries it cannot transform
is_stable_SkipsFailedEntries(adc_data_stable_queue, cap, zero_offset, transform_factor) ==
    IF Len(adc_data_stable_queue) < cap THEN FALSE
    ELSE is_stable_loop_Continues(adc_data_stable_queue, <<>>, zero_offset,
                                  transform_factor)

\* a classifier that does not wait for the window to fill
is_stable_SkipsLengthCheck(adc_data_stable_queue, cap, zero_offset, transform_factor) ==
    is_stable_loop(adc_data_stable_queue, <<>>, zero_offset, transform_factor)

\* WeightProcessor::is_stable
is_stable(adc_data_stable_queue, cap, zero_offset, transform_factor) ==
    IF Len(adc_data_stable_queue) < cap THEN FALSE
    ELSE is_stable_loop(adc_data_stable_queue, <<>>, zero_offset, transform_factor)

\* a status derivation that asks the stability classifier first
weight_status_StabilityFirst(weight, stable_queue, cap, zero_offset, transform_factor) ==
    IF is_stable(stable_queue, cap, zero_offset, transform_factor) THEN "Stable"
    ELSE IF weight < 0 THEN "Underload"
    ELSE IF weight > MaxWeight THEN "Overload"
    ELSE "Unstable"

\* the status computed by loop_read for a successfully transformed weight
weight_status(weight, stable_queue, cap, zero_offset, transform_factor) ==
    IF weight < 0 THEN "Underload"
    ELSE IF weight > MaxWeight THEN "Overload"
    ELSE IF is_stable(stable_queue, cap, zero_offset, transform_factor)
         THEN "Stable"
         ELSE "Unstable"

\* a factor computed from the gross value, the zero offset left out
compute_factor_IgnoresZeroOffset(latest_average, zero_offset, actual_weight) ==
    F32Div(I32ToF32(latest_average), I32ToF32(actual_weight))

\* the value set_transform_factor computes and stores
compute_factor(latest_average, zero_offset, actual_weight) ==
    F32Div(I32ToF32(latest_average - zero_offset), I32ToF32(actual_weight))

(***************************************************************************)
(* The ULN2003A stepper driver (src/src/sensor/uln2003a.rs).               *)
(***************************************************************************)
StepModes == {"WaveDrive", "FullStep", "HalfStep"}

Directions == {"Clockwise", "CounterClockwise"}

\* the coil patterns of a mode, one <<A, B, C, D>> per step
generate_step_sequence(mode) ==
    CASE mode = "WaveDrive" ->
           << <<TRUE, FALSE, FALSE, FALSE>>,
              <<FALSE, TRUE, FALSE, FALSE>>,
              <<FALSE, FALSE, TRUE, FALSE>>,
              <<FALSE, FALSE, FALSE, TRUE>> >>
      [] mode = "FullStep" ->
           << <<TRUE, TRUE, FALSE, FALSE>>,
              <<FALSE, TRUE, TRUE, FALSE>>,
              <<FALSE, FALSE, TRUE, TRUE>>,
              <<TRUE, FALSE, FALSE, TRUE>> >>
      [] mode = "HalfStep" ->
           << <<TRUE, FALSE, FALSE, FALSE>>,
              <<TRUE, TRUE, FALSE, FALSE>>,
              <<FALSE, TRUE, FALSE, FALSE>>,
              <<FALSE, TRUE, TRUE, FALSE>>,
              <<FALSE, FALSE, TRUE, FALSE>>,
              <<FALSE, FALSE, TRUE, TRUE>>,
              <<FALSE, FALSE, FALSE, TRUE>>,
              <<TRUE, FALSE, FALSE, TRUE>> >>

\* the index that step(direction) moves current_step to
step(cur, seq_len, direction) ==
    IF direction = "Clockwise" THEN (cur + 1) % seq_len
    ELSE IF cur = 0 THEN seq_len - 1 ELSE cur - 1

\* apply_step: the pins take the pattern at current_step (the index is
\* 0-based); indexing past the end panics before any pin is driven
apply_step(sequence, cur, old_pins) ==
    IF cur < Len(sequence) THEN sequence[cur + 1] ELSE old_pins

\* the index after the step_count calls of step that run_steps makes
RECURSIVE run_steps(_, _, _, _)
run_steps(cur, seq_len, step_count, direction) ==
    IF step_count = 0 THEN cur
    ELSE run_steps(step(cur, seq_len, direction), seq_len, step_count - 1, direction)

(***************************************************************************)
(* Inputs.                                                                 *)
(***************************************************************************)
\* values hx711.read() returns
RawValues == {0, 4}

\* transform_factor passed to WeightProcessor::new: 0.0 and 1.0
InitFactors == {F32Zero, <<0, 1, 0>>}

\* actual_weight passed to set_transform_factor (main passes 100)
RefWeights == {0, 100}

\* threads calling the control operations
Callers == {1}

(***************************************************************************)
(* State.                                                                  *)
(***************************************************************************)
VARIABLES
    budget,        \* this run's bounds: cycles sampled, control calls made
    bq_cap,        \* bq_cap of WeightProcessor::new
    sq_cap,        \* sq_cap of WeightProcessor::new
    bq,            \* adc_data_buffer_queue
    sq,            \* adc_data_stable_queue
    latest,        \* adc_data_latest_average (AtomicI32)
    zero,          \* adc_data_zero_offset (AtomicI32)
    factor,        \* adc_data_transform_factor (AtomicU32 holding an f32)
    wpc,           \* position of new's warm-up, then of the sampling thread
    wi,            \* warm-up loop counter
    wavg,          \* sampling thread: adc_data_average
    wzo,           \* sampling thread: zero_offset loaded this cycle
    wtf,           \* sampling thread: transform_factor loaded this cycle
    wres,          \* sampling thread: the tuple handed to sender.send
    readOk,        \* sampling thread: match arm of hx711.read() this cycle
    mpc,           \* position of main after WeightProcessor::new
    chan,          \* buffer of the sync_channel
    rxAlive,       \* the Receiver has not been dropped
    received,      \* what recv() has returned so far, in order
    cpc,           \* per caller: position inside a control operation
    cla,           \* per caller: adc_data_latest_average it loaded
    czo,           \* per caller: adc_data_zero_offset it loaded
    cref,          \* per caller: actual_weight of the call in progress
    cret,          \* per caller: what its last set_transform_factor returned
    ctl,           \* control calls made so far
    cycles,        \* steady-state cycles started so far
    published,     \* every tuple the sampling thread has handed to send
    calDone,       \* some set_transform_factor call has returned Ok
    cycCal,        \* calDone as it was when the current cycle started
    zoStored,      \* zero_offset was stored after this cycle's load of it
    tq,            \* stand-alone queue_push runs: the queue
    tcap,          \* stand-alone queue_push runs: its capacity
    tpushed,       \* stand-alone queue_push runs: the values pushed so far
    targs,         \* stand-alone call of a pure function: its arguments
    tret,          \* stand-alone call of a pure function: <<result>> once made
    pins,          \* ULN2003A: level of the four output pins
    step_mode,     \* ULN2003A: step_mode
    step_sequence, \* ULN2003A: step_sequence
    current_step,  \* ULN2003A: current_step (0-based)
    calls          \* ULN2003A: the last two calls made, each with the state it found

pipeVars == <<budget, bq_cap, sq_cap, bq, sq, latest, zero, factor, wpc, wi, wavg,
              wzo, wtf, wres, readOk, mpc, chan, rxAlive, received, cpc, cla, czo,
              cref, cret, ctl, cycles, published, calDone, cycCal, zoStored>>

pushVars == <<tq, tcap, tpushed, targs, tret>>

motorVars == <<pins, step_mode, step_sequence, current_step, calls>>

vars == <<pipeVars, pushVars, motorVars>>

workerVars == <<bq, sq, latest, wpc, wi, wavg, wzo, wtf, wres, readOk, cycles,
                published, cycCal, zoStored>>

callerVars == <<cpc, cla, czo, cref, cret, ctl, calDone>>

NoResult == <<0, "None">>

ErrorResult == <<0, "Error">>

\* the sampling thread has been spawned and new has returned
Running == wpc \notin {"warmRead", "warmSleep", "seed"}

(***************************************************************************)
(* Initial state: entry of WeightProcessor::new, right after the two       *)
(* VecDeque::with_capacity calls; main has created the channel.            *)
(***************************************************************************)
\* everything but the arguments of WeightProcessor::new, for a run with the
\* given calling threads and bounds
Fresh(callers, max_cycles, max_ctl) ==
    /\ budget = [cycles |-> max_cycles, ctl |-> max_ctl]
    /\ bq = <<>>
    /\ sq = <<>>
    /\ latest = 0
    /\ zero = 0
    /\ wpc = "warmRead"
    /\ wi = 0
    /\ wavg = 0
    /\ wzo = 0
    /\ wtf = F32Zero
    /\ wres = NoResult
    /\ readOk = FALSE
    /\ mpc = "setup"
    /\ chan = <<>>
    /\ rxAlive = TRUE
    /\ received = <<>>
    /\ cpc = [c \in callers |-> "idle"]
    /\ cla = [c \in callers |-> 0]
    /\ czo = [c \in callers |-> 0]
    /\ cref = [c \in callers |-> 0]
    /\ cret = [c \in callers |-> <<"none", F32Zero>>]
    /\ ctl = 0
    /\ cycles = 0
    /\ published = <<>>
    /\ calDone = FALSE
    /\ cycCal = FALSE
    /\ zoStored = FALSE

PipeInit ==
    /\ bq_cap \in 0..MaxCap
    /\ sq_cap \in 0..MaxCap
    /\ factor \in InitFactors
    /\ Fresh(Callers, MaxCycles, MaxCtl)

\* ULN2003A::new: the pins are driven low, the sequence is that of the mode
ULN2003A_new(mode) ==
    /\ pins = <<FALSE, FALSE, FALSE, FALSE>>
    /\ step_mode = mode
    /\ step_sequence = generate_step_sequence(mode)
    /\ current_step = 0

\* the weighing program drives no motor
MotorUnused == ULN2003A_new("WaveDrive") /\ calls = <<>>

PushIdle ==
    /\ MotorUnused
    /\ tq = <<>>
    /\ tcap = 0
    /\ tpushed = <<>>
    /\ targs = <<>>
    /\ tret = <<>>

Init == PipeInit /\ PushIdle

(***************************************************************************)
(* WeightProcessor::new: warm-up, seeding, spawn.                          *)
(***************************************************************************)
\* if let Ok(data) = hx711_driver.read() { queue_push(...) }
WarmReadOk(data) ==
    /\ wpc = "warmRead"
    /\ bq' = queue_push(bq, bq_cap, data)
    /\ wpc' = "warmSleep"
    /\ UNCHANGED <<budget, bq_cap, sq_cap, sq, latest, zero, factor, wi, wavg, wzo,
                   wtf, wres, readOk, mpc, chan, rxAlive, received, callerVars, zoStored, cycles,
                   published, cycCal, pushVars, motorVars>>

\* a failed warm-up read that goes on to the next iteration without sleeping
WarmReadErr_SkipsSleep ==
    /\ wpc = "warmRead"
    /\ wi' = wi + 1
    /\ wpc' = IF wi + 1 < WarmupReads THEN "warmRead" ELSE "seed"
    /\ UNCHANGED <<budget, bq_cap, sq_cap, bq, sq, latest, zero, factor, wavg, wzo,
                   wtf, wres, readOk, mpc, chan, rxAlive, received, callerVars, zoStored, cycles,
                   published, cycCal, pushVars, motorVars>>

\* hx711_driver.read() failed during warm-up: nothing is pushed
WarmReadErr ==
    /\ wpc = "warmRead"
    /\ wpc' = "warmSleep"
    /\ UNCHANGED <<budget, bq_cap, sq_cap, bq, sq, latest, zero, factor, wi, wavg, wzo,
                   wtf, wres, readOk, mpc, chan, rxAlive, received, callerVars, zoStored, cycles,
                   published, cycCal, pushVars, motorVars>>

\* std::thread::sleep(100ms) closing one warm-up iteration
WarmSleep ==
    /\ wpc = "warmSleep"
    /\ wi' = wi + 1
    /\ wpc' = IF wi + 1 < WarmupReads THEN "warmRead" ELSE "seed"
    /\ UNCHANGED <<budget, bq_cap, sq_cap, bq, sq, latest, zero, factor, wavg, wzo,
                   wtf, wres, readOk, mpc, chan, rxAlive, received, callerVars, zoStored, cycles,
                   published, cycCal, pushVars, motorVars>>

\* a seeding that leaves the zero offset at 0
Seed_ZeroOffsetZero ==
    /\ wpc = "seed"
    /\ LET init_adc_data_average == queue_average(bq)
       IN  /\ sq' = queue_push(sq, sq_cap, init_adc_data_average)
           /\ latest' = init_adc_data_average
           /\ zero' = 0
    /\ wpc' = "read"
    /\ UNCHANGED <<budget, bq_cap, sq_cap, bq, factor, wi, wavg, wzo, wtf, wres,
                   readOk, mpc, chan, rxAlive, received, callerVars, zoStored,
                   cycles, published, cycCal, pushVars, motorVars>>

\* a seeding that leaves the stability queue empty
Seed_SkipsStableWindow ==
    /\ wpc = "seed"
    /\ LET init_adc_data_average == queue_average(bq)
       IN  /\ latest' = init_adc_data_average
           /\ zero' = init_adc_data_average
    /\ wpc' = "read"
    /\ UNCHANGED <<budget, bq_cap, sq_cap, bq, sq, factor, wi, wavg, wzo, wtf, wres,
                   readOk, mpc, chan, rxAlive, received, callerVars, zoStored,
                   cycles, published, cycCal, pushVars, motorVars>>

\* a seeding that leaves the latest average at the 0 it was created with
Seed_SkipsLatest ==
    /\ wpc = "seed"
    /\ LET init_adc_data_average == queue_average(bq)
       IN  /\ sq' = queue_push(sq, sq_cap, init_adc_data_average)
           /\ zero' = init_adc_data_average
    /\ wpc' = "read"
    /\ UNCHANGED <<budget, bq_cap, sq_cap, bq, latest, factor, wi, wavg, wzo, wtf, wres,
                   readOk, mpc, chan, rxAlive, received, callerVars, zoStored, cycles,
                   published, cycCal, pushVars, motorVars>>

\* initial average into the stability queue, latest average and zero offset;
\* then loop_read spawns the sampling thread and new returns
Seed ==
    /\ wpc = "seed"
    /\ LET init_adc_data_average == queue_average(bq)
       IN  /\ sq' = queue_push(sq, sq_cap, init_adc_data_average)
           /\ latest' = init_adc_data_average
           /\ zero' = init_adc_data_average
    /\ wpc' = "read"
    /\ UNCHANGED <<budget, bq_cap, sq_cap, bq, factor, wi, wavg, wzo, wtf, wres, readOk,
                   mpc, chan, rxAlive, received, callerVars, zoStored, cycles, published,
                   cycCal, pushVars, motorVars>>

(***************************************************************************)
(* The sampling thread of loop_read.                                       *)
(***************************************************************************)
\* a cycle that looks at the factor first and, finding it zero, gives up
\* before the sample is pushed
ReadOk_ChecksFactorFirst(data) ==
    /\ wpc = "read"
    /\ cycles < budget.cycles
    /\ IF F32IsZero(factor)
       THEN /\ wpc' = "sleepCalib"
            /\ UNCHANGED <<bq, wavg, latest, sq>>
       ELSE LET q == queue_push(bq, bq_cap, data)
                adc_data_average == queue_average(q)
            IN  /\ bq' = q
                /\ wavg' = adc_data_average
                /\ latest' = adc_data_average
                /\ sq' = queue_push(sq, sq_cap, adc_data_average)
                /\ wpc' = "loadZero"
    /\ readOk' = TRUE
    /\ cycles' = cycles + 1
    /\ cycCal' = calDone
    /\ UNCHANGED <<budget, bq_cap, sq_cap, zero, factor, wi, wzo, wtf, wres, mpc, chan,
                   rxAlive, received, callerVars, zoStored, published, pushVars, motorVars>>

\* hx711.read() returned Ok(data): push, average, store the latest average,
\* push the average into the stability queue
ReadOk(data) ==
    /\ wpc = "read"
    /\ cycles < budget.cycles
    /\ LET q == queue_push(bq, bq_cap, data)
           adc_data_average == queue_average(q)
       IN  /\ bq' = q
           /\ wavg' = adc_data_average
           /\ latest' = adc_data_average
           /\ sq' = queue_push(sq, sq_cap, adc_data_average)
    /\ readOk' = TRUE
    /\ cycles' = cycles + 1
    /\ cycCal' = calDone
    /\ wpc' = "loadZero"
    /\ UNCHANGED <<budget, bq_cap, sq_cap, zero, factor, wi, wzo, wtf, wres, mpc, chan,
                   rxAlive, received, callerVars, zoStored, published, pushVars, motorVars>>

\* a failed read that also discards the buffered samples
ReadErr_ClearsBuffer ==
    /\ wpc = "read"
    /\ cycles < budget.cycles
    /\ readOk' = FALSE
    /\ cycles' = cycles + 1
    /\ cycCal' = calDone
    /\ wres' = ErrorResult
    /\ published' = Append(published, ErrorResult)
    /\ bq' = <<>>
    /\ wpc' = "send"
    /\ UNCHANGED <<budget, bq_cap, sq_cap, sq, latest, zero, factor, wi, wavg, wzo,
                   wtf, mpc, chan, rxAlive, received, callerVars, zoStored, pushVars, motorVars>>

\* a failed read reported with the latest average as a best-effort weight
ReadErr_SendsLatest ==
    /\ wpc = "read"
    /\ cycles < budget.cycles
    /\ readOk' = FALSE
    /\ cycles' = cycles + 1
    /\ cycCal' = calDone
    /\ wres' = <<latest, "Error">>
    /\ published' = Append(published, <<latest, "Error">>)
    /\ wpc' = "send"
    /\ UNCHANGED <<budget, bq_cap, sq_cap, bq, sq, latest, zero, factor, wi, wavg, wzo,
                   wtf, mpc, chan, rxAlive, received, callerVars, zoStored, pushVars, motorVars>>

\* hx711.read() returned Err: the tuple (0, Error) is handed to sender.send
ReadErr ==
    /\ wpc = "read"
    /\ cycles < budget.cycles
    /\ readOk' = FALSE
    /\ cycles' = cycles + 1
    /\ cycCal' = calDone
    /\ wres' = ErrorResult
    /\ published' = Append(published, ErrorResult)
    /\ wpc' = "send"
    /\ UNCHANGED <<budget, bq_cap, sq_cap, bq, sq, latest, zero, factor, wi, wavg, wzo,
                   wtf, mpc, chan, rxAlive, received, callerVars, zoStored, pushVars, motorVars>>

\* a load that waits while a control operation is in progress, as it would
\* behind a mutex shared with set_tare_weight and set_transform_factor
LoadZero_WaitsForCallers ==
    /\ wpc = "loadZero"
    /\ \A c \in DOMAIN cpc : cpc[c] = "idle"
    /\ wzo' = zero
    /\ wpc' = "loadFactor"
    /\ UNCHANGED <<budget, bq_cap, sq_cap, bq, sq, latest, zero, factor, wi, wavg, wtf,
                   wres, readOk, mpc, chan, rxAlive, received, callerVars, zoStored,
                   cycles, published, cycCal, pushVars, motorVars>>

\* a sampling thread that loads the zero offset in its first cycle only
LoadZero_OnlyFirstCycle ==
    /\ wpc = "loadZero"
    /\ wzo' = IF cycles <= 1 THEN zero ELSE wzo
    /\ wpc' = "loadFactor"
    /\ UNCHANGED <<budget, bq_cap, sq_cap, bq, sq, latest, zero, factor, wi, wavg, wtf,
                   wres, readOk, mpc, chan, rxAlive, received, callerVars, zoStored,
                   cycles, published, cycCal, pushVars, motorVars>>

\* adc_data_zero_offset.load(Acquire)
LoadZero ==
    /\ wpc = "loadZero"
    /\ wzo' = zero
    /\ wpc' = "loadFactor"
    /\ UNCHANGED <<budget, bq_cap, sq_cap, bq, sq, latest, zero, factor, wi, wavg, wtf,
                   wres, readOk, mpc, chan, rxAlive, received, callerVars, zoStored, cycles,
                   published, cycCal, pushVars, motorVars>>

\* a transform that loads the zero offset again instead of using the one
\* loaded at the start of the cycle
LoadFactor_ReloadsZero ==
    /\ wpc = "loadFactor"
    /\ wtf' = factor
    /\ zoStored' = FALSE
    /\ LET r == adc_data_transform(wavg, zero, factor)
       IN  IF r.ok
           THEN LET res == <<r.v, weight_status(r.v, sq, sq_cap, wzo, factor)>>
                IN  /\ wres' = res
                    /\ published' = Append(published, res)
                    /\ wpc' = "send"
           ELSE /\ wpc' = "sleepCalib"
                /\ UNCHANGED <<wres, published>>
    /\ UNCHANGED <<budget, bq_cap, sq_cap, bq, sq, latest, zero, factor, wi, wavg, wzo,
                   readOk, mpc, chan, rxAlive, received, callerVars, cycles, cycCal,
                   pushVars, motorVars>>

\* adc_data_transform_factor.load(Acquire), the transform and the status:
\* either the tuple (weight, status) is handed to sender.send, or the
\* transform failed and the thread goes to its sleep-and-continue
\* a cycle that hands the classifier a scale factor it never loaded
LoadFactor_ClassifiesWithoutFactor ==
    /\ wpc = "loadFactor"
    /\ wtf' = factor
    /\ zoStored' = FALSE
    /\ LET r == adc_data_transform(wavg, wzo, factor)
       IN  IF r.ok
           THEN LET res == <<r.v, weight_status(r.v, sq, sq_cap, wzo, F32Zero)>>
                IN  /\ wres' = res
                    /\ published' = Append(published, res)
                    /\ wpc' = "send"
           ELSE /\ wpc' = "sleepCalib"
                /\ UNCHANGED <<wres, published>>
    /\ UNCHANGED <<budget, bq_cap, sq_cap, bq, sq, latest, zero, factor, wi, wavg, wzo,
                   readOk, mpc, chan, rxAlive, received, callerVars, cycles, cycCal,
                   pushVars, motorVars>>

LoadFactor ==
    /\ wpc = "loadFactor"
    /\ wtf' = factor
    /\ zoStored' = FALSE
    /\ LET r == adc_data_transform(wavg, wzo, factor)
       IN  IF r.ok
           THEN LET res == <<r.v, weight_status(r.v, sq, sq_cap, wzo, factor)>>
                IN  /\ wres' = res
                    /\ published' = Append(published, res)
                    /\ wpc' = "send"
           ELSE /\ wpc' = "sleepCalib"
                /\ UNCHANGED <<wres, published>>
    /\ UNCHANGED <<budget, bq_cap, sq_cap, bq, sq, latest, zero, factor, wi, wavg, wzo,
                   readOk, mpc, chan, rxAlive, received, callerVars, cycles, cycCal,
                   pushVars, motorVars>>

\* a send that gives up on a full buffer (try_send) instead of waiting
SendOk_DropWhenFull ==
    /\ wpc = "send"
    /\ rxAlive
    /\ chan' = IF Len(chan) < ChanCap
               THEN Append(chan, <<Len(published), wres>>)
               ELSE chan
    /\ wpc' = "sleep"
    /\ UNCHANGED <<budget, bq_cap, sq_cap, bq, sq, latest, zero, factor, wi, wavg, wzo,
                   wtf, wres, readOk, mpc, rxAlive, received, callerVars, zoStored, cycles,
                   published, cycCal, pushVars, motorVars>>

\* sender.send returns Ok: possible only while the buffer has room
SendOk ==
    /\ wpc = "send"
    /\ rxAlive
    /\ Len(chan) < ChanCap
    /\ chan' = Append(chan, <<Len(published), wres>>)
    /\ wpc' = "sleep"
    /\ UNCHANGED <<budget, bq_cap, sq_cap, bq, sq, latest, zero, factor, wi, wavg, wzo,
                   wtf, wres, readOk, mpc, rxAlive, received, callerVars, zoStored, cycles,
                   published, cycCal, pushVars, motorVars>>

\* a sampling thread that leaves its loop when the send fails
SendErr_Exit ==
    /\ wpc = "send"
    /\ ~rxAlive
    /\ wpc' = "exit"
    /\ UNCHANGED <<budget, bq_cap, sq_cap, bq, sq, latest, zero, factor, wi, wavg, wzo,
                   wtf, wres, readOk, mpc, chan, rxAlive, received, callerVars, zoStored,
                   cycles, published, cycCal, pushVars, motorVars>>

\* sender.send returns Err: the Receiver is gone
SendErr ==
    /\ wpc = "send"
    /\ ~rxAlive
    /\ wpc' = "sendFailed"
    /\ UNCHANGED <<budget, bq_cap, sq_cap, bq, sq, latest, zero, factor, wi, wavg, wzo,
                   wtf, wres, readOk, mpc, chan, rxAlive, received, callerVars, zoStored,
                   cycles, published, cycCal, pushVars, motorVars>>

\* the eprintln! of the `if let Err(err) = sender.send(..)` branches
LogSendFail ==
    /\ wpc = "sendFailed"
    /\ wpc' = "sleep"
    /\ UNCHANGED <<budget, bq_cap, sq_cap, bq, sq, latest, zero, factor, wi, wavg, wzo,
                   wtf, wres, readOk, mpc, chan, rxAlive, received, callerVars, zoStored,
                   cycles, published, cycCal, pushVars, motorVars>>

\* the locals of the loop body go out of scope when an iteration ends
EndOfIteration ==
    /\ wavg' = 0
    /\ wzo' = 0
    /\ wtf' = F32Zero
    /\ wres' = NoResult
    /\ readOk' = FALSE

\* transform failed: eprintln!, thread::sleep(100ms), continue
SleepCalib ==
    /\ wpc = "sleepCalib"
    /\ wpc' = "read"
    /\ EndOfIteration
    /\ UNCHANGED <<budget, bq_cap, sq_cap, bq, sq, latest, zero, factor, wi, mpc, chan,
                   rxAlive, received, callerVars, zoStored, cycles, published, cycCal,
                   pushVars, motorVars>>

\* thread::sleep(100ms) at the end of the loop body
Sleep ==
    /\ wpc = "sleep"
    /\ wpc' = "read"
    /\ EndOfIteration
    /\ UNCHANGED <<budget, bq_cap, sq_cap, bq, sq, latest, zero, factor, wi, mpc, chan,
                   rxAlive, received, callerVars, zoStored, cycles, published, cycCal,
                   pushVars, motorVars>>

(***************************************************************************)
(* main after WeightProcessor::new has returned.                           *)
(***************************************************************************)
\* button_driver.on_change(..)? returns Ok: the callback that calls the
\* control operations is registered and main enters its receive loop
RegisterOk ==
    /\ Running
    /\ mpc = "setup"
    /\ mpc' = "loop"
    /\ UNCHANGED <<budget, bq_cap, sq_cap, zero, factor, workerVars, chan, rxAlive,
                   received, callerVars, pushVars, motorVars>>

\* button_driver.on_change(..)? returns Err: main returns, which drops the
\* Receiver; every later send returns Err
DropReceiver ==
    /\ Running
    /\ mpc = "setup"
    /\ mpc' = "exited"
    /\ rxAlive' = FALSE
    /\ UNCHANGED <<budget, bq_cap, sq_cap, zero, factor, workerVars, chan, received,
                   callerVars, pushVars, motorVars>>

\* weight_reciver.recv() returns Ok: the oldest buffered tuple
Recv ==
    /\ mpc = "loop"
    /\ chan # <<>>
    /\ received' = Append(received, Head(chan))
    /\ chan' = Tail(chan)
    /\ UNCHANGED <<budget, bq_cap, sq_cap, zero, factor, workerVars, mpc, rxAlive,
                   callerVars, pushVars, motorVars>>

(***************************************************************************)
(* Control operations, one atomic load or store per step.                  *)
(***************************************************************************)
\* set_tare_weight: adc_data_latest_average.load(Acquire)
TareLoad(c) ==
    /\ mpc = "loop"
    /\ cpc[c] = "idle"
    /\ ctl < budget.ctl
    /\ ctl' = ctl + 1
    /\ cla' = [cla EXCEPT ![c] = latest]
    /\ cpc' = [cpc EXCEPT ![c] = "tareStore"]
    /\ UNCHANGED <<budget, bq_cap, sq_cap, zero, factor, workerVars, mpc, chan, rxAlive,
                   received, czo, cref, cret, calDone, pushVars, motorVars>>

\* a tare that also empties the stability queue
TareStore_ClearsStableWindow(c) ==
    /\ cpc[c] = "tareStore"
    /\ zero' = cla[c]
    /\ sq' = <<>>
    /\ zoStored' = (wpc = "loadFactor")
    /\ cla' = [cla EXCEPT ![c] = 0]
    /\ cpc' = [cpc EXCEPT ![c] = "idle"]
    /\ UNCHANGED <<budget, bq_cap, sq_cap, factor, bq, latest, wpc, wi, wavg,
                   wzo, wtf, wres, readOk, cycles, published, cycCal, mpc, chan,
                   rxAlive, received, czo, cref, cret, ctl, calDone, pushVars, motorVars>>

\* a store made as two 16-bit halves of which only the upper one lands
TareStore_Torn(c) ==
    /\ cpc[c] = "tareStore"
    /\ zero' = (cla[c] \div 65536) * 65536 + (zero % 65536)
    /\ zoStored' = (wpc = "loadFactor")
    /\ cla' = [cla EXCEPT ![c] = 0]
    /\ cpc' = [cpc EXCEPT ![c] = "idle"]
    /\ UNCHANGED <<budget, bq_cap, sq_cap, factor, bq, sq, latest, wpc, wi, wavg,
                   wzo, wtf, wres, readOk, cycles, published, cycCal, mpc, chan,
                   rxAlive, received, czo, cref, cret, ctl, calDone, pushVars, motorVars>>

\* a tare that stores the net value (latest average minus the old offset)
TareStore_StoresNet(c) ==
    /\ cpc[c] = "tareStore"
    /\ zero' = cla[c] - zero
    /\ zoStored' = (wpc = "loadFactor")
    /\ cla' = [cla EXCEPT ![c] = 0]
    /\ cpc' = [cpc EXCEPT ![c] = "idle"]
    /\ UNCHANGED <<budget, bq_cap, sq_cap, factor, bq, sq, latest, wpc, wi, wavg,
                   wzo, wtf, wres, readOk, cycles, published, cycCal, mpc, chan,
                   rxAlive, received, czo, cref, cret, ctl, calDone, pushVars, motorVars>>

\* set_tare_weight: adc_data_zero_offset.store(.., Release)
TareStore(c) ==
    /\ cpc[c] = "tareStore"
    /\ zero' = cla[c]
    /\ zoStored' = (wpc = "loadFactor")
    /\ cla' = [cla EXCEPT ![c] = 0]
    /\ cpc' = [cpc EXCEPT ![c] = "idle"]
    /\ UNCHANGED <<budget, bq_cap, sq_cap, factor, bq, sq, latest, wpc, wi, wavg,
                   wzo, wtf, wres, readOk, cycles, published, cycCal, mpc, chan,
                   rxAlive, received, czo, cref, cret, ctl, calDone, pushVars, motorVars>>

\* a rejected call that resets the stored factor to 0.0
CalReject_ClearsFactor(c) ==
    /\ mpc = "loop"
    /\ cpc[c] = "idle"
    /\ ctl < budget.ctl
    /\ ctl' = ctl + 1
    /\ cret' = [cret EXCEPT ![c] = <<"Err", F32Zero>>]
    /\ factor' = F32Zero
    /\ UNCHANGED <<budget, bq_cap, sq_cap, zero, workerVars, mpc, chan, rxAlive,
                   received, cpc, cla, czo, cref, calDone, pushVars, motorVars>>

\* set_transform_factor(0): Err, nothing loaded or stored
CalReject(c) ==
    /\ mpc = "loop"
    /\ cpc[c] = "idle"
    /\ ctl < budget.ctl
    /\ ctl' = ctl + 1
    /\ cret' = [cret EXCEPT ![c] = <<"Err", F32Zero>>]
    /\ UNCHANGED <<budget, bq_cap, sq_cap, zero, factor, workerVars, mpc, chan, rxAlive,
                   received, cpc, cla, czo, cref, calDone, pushVars, motorVars>>

\* set_transform_factor(actual_weight), actual_weight != 0:
\* adc_data_latest_average.load(Acquire)
CalLoadLatest(c, actual_weight) ==
    /\ mpc = "loop"
    /\ cpc[c] = "idle"
    /\ ctl < budget.ctl
    /\ actual_weight # 0
    /\ ctl' = ctl + 1
    /\ cref' = [cref EXCEPT ![c] = actual_weight]
    /\ cla' = [cla EXCEPT ![c] = latest]
    /\ cpc' = [cpc EXCEPT ![c] = "calLoadZero"]
    /\ UNCHANGED <<budget, bq_cap, sq_cap, zero, factor, workerVars, mpc, chan, rxAlive,
                   received, czo, cret, calDone, pushVars, motorVars>>

\* set_transform_factor: adc_data_zero_offset.load(Acquire)
CalLoadZero(c) ==
    /\ cpc[c] = "calLoadZero"
    /\ czo' = [czo EXCEPT ![c] = zero]
    /\ cpc' = [cpc EXCEPT ![c] = "calStore"]
    /\ UNCHANGED <<budget, bq_cap, sq_cap, zero, factor, workerVars, mpc, chan, rxAlive,
                   received, cla, cref, cret, ctl, calDone, pushVars, motorVars>>

\* a call that stores its factor but returns the one stored before
CalStore_ReturnsPrevious(c) ==
    /\ cpc[c] = "calStore"
    /\ LET transform_factor == compute_factor(cla[c], czo[c], cref[c])
       IN  /\ factor' = transform_factor
           /\ cret' = [cret EXCEPT ![c] = <<"Ok", factor>>]
    /\ calDone' = TRUE
    /\ cla' = [cla EXCEPT ![c] = 0]
    /\ czo' = [czo EXCEPT ![c] = 0]
    /\ cref' = [cref EXCEPT ![c] = 0]
    /\ cpc' = [cpc EXCEPT ![c] = "idle"]
    /\ UNCHANGED <<budget, bq_cap, sq_cap, zero, workerVars, mpc, chan, rxAlive, received,
                   ctl, pushVars, motorVars>>

\* set_transform_factor: compute the factor, store it (Release), return Ok
\* (the locals of a call end with it)
CalStore(c) ==
    /\ cpc[c] = "calStore"
    /\ LET transform_factor == compute_factor(cla[c], czo[c], cref[c])
       IN  /\ factor' = transform_factor
           /\ cret' = [cret EXCEPT ![c] = <<"Ok", transform_factor>>]
    /\ calDone' = TRUE
    /\ cla' = [cla EXCEPT ![c] = 0]
    /\ czo' = [czo EXCEPT ![c] = 0]
    /\ cref' = [cref EXCEPT ![c] = 0]
    /\ cpc' = [cpc EXCEPT ![c] = "idle"]
    /\ UNCHANGED <<budget, bq_cap, sq_cap, zero, workerVars, mpc, chan, rxAlive, received,
                   ctl, pushVars, motorVars>>

(***************************************************************************)
(* Specifications of the pipeline.                                         *)
(***************************************************************************)
Construct ==
    \/ \E data \in RawValues : WarmReadOk(data)
    \/ WarmReadErr
    \/ WarmSleep
    \/ Seed

Worker ==
    \/ \E data \in RawValues : ReadOk(data)
    \/ ReadErr
    \/ LoadZero
    \/ LoadFactor
    \/ SendOk
    \/ SendErr
    \/ LogSendFail
    \/ SleepCalib
    \/ Sleep

Consumer ==
    \/ RegisterOk
    \/ DropReceiver
    \/ Recv

Control ==
    \E c \in DOMAIN cpc :
        \/ TareLoad(c)
        \/ TareStore(c)
        \/ CalReject(c)
        \/ \E w \in RefWeights : CalLoadLatest(c, w)
        \/ CalLoadZero(c)
        \/ CalStore(c)

Next == Construct \/ Worker \/ Consumer \/ Control

Spec == Init /\ [][Next]_vars

\* the liveness runs fix both capacities, as main does (it passes 5 and 3)
FairInit == Init /\ bq_cap = MaxCap /\ sq_cap = MaxCap

\* the sampling thread and main are running OS threads (main's loop keeps
\* calling recv()); the button callback may never be called
FairSpec ==
    FairInit /\ [][Next]_vars
        /\ WF_vars(Construct) /\ WF_vars(Worker) /\ WF_vars(Consumer)

\* the pipeline is not running
PipeUnused ==
    /\ PipeInit
    /\ bq_cap = 0
    /\ sq_cap = 0
    /\ factor = F32Zero

(***************************************************************************)
(* Stand-alone runs of queue_push: any capacity, any sequence of pushes    *)
(* onto an initially empty queue.                                          *)
(***************************************************************************)
PushInit ==
    /\ PipeInit
    /\ MotorUnused
    /\ bq_cap = 0
    /\ sq_cap = 0
    /\ factor = F32Zero
    /\ tq = <<>>
    /\ tcap \in 0..MaxCap
    /\ tpushed = <<>>
    /\ targs = <<>>
    /\ tret = <<>>

Push(value) ==
    /\ Len(tpushed) < MaxPush
    /\ tq' = queue_push(tq, tcap, value)
    /\ tpushed' = Append(tpushed, value)
    /\ UNCHANGED <<tcap, targs, tret, pipeVars, motorVars>>

PushNext == \E value \in RawValues : Push(value)

PushSpec == PushInit /\ [][PushNext]_vars

(***************************************************************************)
(* Stand-alone runs of queue_push on a queue that may already hold more    *)
(* values than the capacity passed with the push.                          *)
(***************************************************************************)
OverLen == 3

OverCap == 2

OverQueues == UNION {[1..n -> RawValues] : n \in 0..OverLen}

OverflowInit ==
    /\ PipeUnused
    /\ MotorUnused
    /\ tq \in OverQueues
    /\ tcap \in 0..OverCap
    /\ tpushed = <<>>
    /\ targs = <<>>
    /\ tret = <<>>

OverflowNext == \E value \in RawValues : Push(value)

OverflowSpec == OverflowInit /\ [][OverflowNext]_vars

(***************************************************************************)
(* Stand-alone calls of adc_data_transform: the raw value, the zero offset *)
(* and the factor are drawn from small sets that hold both signs, exact    *)
(* halves (odd differences over 2.0), inexact quotients (over 3.0),        *)
(* factors below 1 and both zeros.                                         *)
(***************************************************************************)
MaxRaw == 6

\* small values of both signs, and a reading of about 259.5 g at main's factor
TransformRaws == (-MaxRaw..MaxRaw) \cup {111476}

TransformZeros == {0, 2}

\* 0.0, -0.0, 1.0, 2.0, -2.0, 3.0, 0.5, 0.25 and main's 429.58
TransformFactors == {F32Zero, <<1, 0, 0>>, <<0, 1, 0>>, <<0, 1, 1>>, <<1, 1, 1>>,
                     <<0, 3, 0>>, <<0, 1, -1>>, <<0, 1, -2>>,
                     <<0, 14076477, -15>>}

TransformInit ==
    /\ PipeUnused
    /\ MotorUnused
    /\ tq = <<>>
    /\ tcap = 0
    /\ tpushed = <<>>
    /\ targs \in TransformRaws \X TransformZeros \X TransformFactors
    /\ tret = <<>>

\* Self::adc_data_transform(adc_data, zero_offset, transform_factor)
Transform ==
    /\ tret = <<>>
    /\ tret' = <<adc_data_transform(targs[1], targs[2], targs[3])>>
    /\ UNCHANGED <<tq, tcap, tpushed, targs, pipeVars, motorVars>>

TransformNext == Transform

TransformSpec == TransformInit /\ [][TransformNext]_vars

(***************************************************************************)
(* Stand-alone calls of is_stable: queues shorter than, as long as and     *)
(* longer than the capacity, equal and unequal entries, factors 0.0, -0.0  *)
(* and 1.0.                                                                *)
(***************************************************************************)
ClassifyFactors == {F32Zero, <<1, 0, 0>>, <<0, 1, 0>>}

ClassifyInit ==
    /\ PipeUnused
    /\ MotorUnused
    /\ tq = <<>>
    /\ tcap = 0
    /\ tpushed = <<>>
    /\ targs \in OverQueues \X (0..OverCap) \X TransformZeros \X ClassifyFactors
    /\ tret = <<>>

\* Self::is_stable(&adc_data_stable_queue, sq_cap, zero_offset, transform_factor)
Classify ==
    /\ tret = <<>>
    /\ tret' = <<is_stable(targs[1], targs[2], targs[3], targs[4])>>
    /\ UNCHANGED <<tq, tcap, tpushed, targs, pipeVars, motorVars>>

ClassifyNext == Classify

ClassifySpec == ClassifyInit /\ [][ClassifyNext]_vars

(***************************************************************************)
(* The AHT30 driver: Status::from decodes the status byte the sensor       *)
(* returns.  A stand-alone call for every value of the byte.               *)
(***************************************************************************)
\* u8::MAX
MaxByte == 255

\* (data & (1 << n)) != 0
BitSet(data, n) == (data \div Pow2(n)) % 2 = 1

\* Status::from
Status_from(data) ==
    [cmp_interrupt       |-> BitSet(data, 2),
     calibration_enabled |-> BitSet(data, 3),
     crc_ok              |-> BitSet(data, 4),
     mode                |-> IF BitSet(data, 6) \/ (BitSet(data, 5) \/ BitSet(data, 6))
                             THEN "CMD"
                             ELSE IF BitSet(data, 5) THEN "CYC"
                             ELSE "NOR",
     is_busy             |-> BitSet(data, 7)]

StatusInit ==
    /\ PipeUnused
    /\ MotorUnused
    /\ tq = <<>>
    /\ tcap = 0
    /\ tpushed = <<>>
    /\ targs \in {<<data>> : data \in 0..MaxByte}
    /\ tret = <<>>

\* Status::from(data)
Decode ==
    /\ tret = <<>>
    /\ tret' = <<Status_from(targs[1])>>
    /\ UNCHANGED <<tq, tcap, tpushed, targs, pipeVars, motorVars>>

StatusNext == Decode

StatusSpec == StatusInit /\ [][StatusNext]_vars

(***************************************************************************)
(* Stand-alone calls of queue_average on queues of up to AvgLen values of  *)
(* both signs.                                                             *)
(***************************************************************************)
AvgLen == 3

AvgValues == {-3, -1, 2, 4}

AvgQueues == UNION {[1..n -> AvgValues] : n \in 0..AvgLen}

AverageInit ==
    /\ PipeUnused
    /\ MotorUnused
    /\ tq \in AvgQueues
    /\ tcap = 0
    /\ tpushed = <<>>
    /\ targs = <<>>
    /\ tret = <<>>

\* Self::queue_average(&queue)
Average ==
    /\ tret = <<>>
    /\ tret' = <<queue_average(tq)>>
    /\ UNCHANGED <<tq, tcap, tpushed, targs, pipeVars, motorVars>>

AverageNext == Average

AverageSpec == AverageInit /\ [][AverageNext]_vars

(***************************************************************************)
(* The ULN2003A stepper driver on its own: a motor constructed in any mode *)
(* receives any sequence of set_step_mode, step, run_steps and release     *)
(* calls.  The methods take &mut self, so calls do not overlap.            *)
(***************************************************************************)
MaxSteps == 3

\* the call being made, with the state it finds, joins the last call
Recorded(op, arg) ==
    LET c == Append(calls, [op |-> op, arg |-> arg,
                            before |-> [step_mode |-> step_mode,
                                        current_step |-> current_step,
                                        pins |-> pins]])
    IN  IF Len(c) > 2 THEN Tail(c) ELSE c

MotorInit ==
    /\ PipeUnused
    /\ tq = <<>>
    /\ tcap = 0
    /\ tpushed = <<>>
    /\ targs = <<>>
    /\ tret = <<>>
    /\ \E mode \in StepModes : ULN2003A_new(mode)
    /\ calls = <<>>

\* set_step_mode that keeps current_step when the mode changes
SetStepMode_KeepsIndex(mode) ==
    /\ IF mode # step_mode
       THEN /\ step_mode' = mode
            /\ step_sequence' = generate_step_sequence(mode)
            /\ UNCHANGED current_step
       ELSE UNCHANGED <<step_mode, step_sequence, current_step>>
    /\ calls' = Recorded("set_step_mode", mode)
    /\ UNCHANGED <<pins, pipeVars, pushVars>>

\* set_step_mode(mode)
SetStepMode(mode) ==
    /\ IF mode # step_mode
       THEN /\ step_mode' = mode
            /\ step_sequence' = generate_step_sequence(mode)
            /\ current_step' = 0
       ELSE UNCHANGED <<step_mode, step_sequence, current_step>>
    /\ calls' = Recorded("set_step_mode", mode)
    /\ UNCHANGED <<pins, pipeVars, pushVars>>

\* step(direction): move the index, then apply_step
Step(direction) ==
    /\ current_step' = step(current_step, Len(step_sequence), direction)
    /\ pins' = apply_step(step_sequence, current_step', pins)
    /\ calls' = Recorded("step", direction)
    /\ UNCHANGED <<step_mode, step_sequence, pipeVars, pushVars>>

\* run_steps(steps, step_delay, direction): steps.abs() calls of step, a
\* sleep after each
RunSteps(steps, direction) ==
    /\ LET step_count == Abs(steps)
       IN  /\ current_step' = run_steps(current_step, Len(step_sequence),
                                        step_count, direction)
           /\ pins' = IF step_count = 0 THEN pins
                      ELSE apply_step(step_sequence, current_step', pins)
    /\ calls' = Recorded("run_steps", <<steps, direction>>)
    /\ UNCHANGED <<step_mode, step_sequence, pipeVars, pushVars>>

\* release(): every pin low
Release ==
    /\ pins' = <<FALSE, FALSE, FALSE, FALSE>>
    /\ calls' = Recorded("release", <<>>)
    /\ UNCHANGED <<step_mode, step_sequence, current_step, pipeVars, pushVars>>

MotorNext ==
    \/ \E mode \in StepModes : SetStepMode(mode)
    \/ \E direction \in Directions : Step(direction)
    \/ \E steps \in (-MaxSteps)..MaxSteps, direction \in Directions :
          RunSteps(steps, direction)
    \/ Release

MotorSpec == MotorInit /\ [][MotorNext]_vars

(***************************************************************************)
(* A scale that reads grams (factor 1.0) or is not calibrated yet (factor  *)
(* 0.0): a one-sample smoothing window, a two-sample stability window,     *)
(* readings at and around the 5000 limit; the button is never pressed.     *)
(***************************************************************************)
GramCycles == 3

GramValues == {0, MaxWeight, MaxWeight + 1}

GramInit ==
    /\ bq_cap = 1
    /\ sq_cap = 2
    /\ factor \in InitFactors
    /\ Fresh(Callers, GramCycles, 0)
    /\ PushIdle

GramConstruct ==
    \/ \E data \in GramValues : WarmReadOk(data)
    \/ WarmReadErr
    \/ WarmSleep
    \/ Seed

GramWorker ==
    \/ \E data \in GramValues : ReadOk(data)
    \/ ReadErr
    \/ LoadZero
    \/ LoadFactor
    \/ SendOk
    \/ SendErr
    \/ LogSendFail
    \/ SleepCalib
    \/ Sleep

GramNext == GramConstruct \/ GramWorker \/ Consumer

GramSpec == GramInit /\ [][GramNext]_vars

(***************************************************************************)
(* The processor as main builds it (windows of 5 and 3, factor 429.58, or  *)
(* factor 1.0) on a platform at rest: every read returns 1000 and the      *)
(* button is never pressed.                                                *)
(***************************************************************************)
MainCycles == 4

\* 429.58_f32 and 1.0_f32
MainFactors == {<<0, 14076477, -15>>, <<0, 1, 0>>}

RestValues == {1000}

MainInit ==
    /\ bq_cap = 5
    /\ sq_cap = 3
    /\ factor \in MainFactors
    /\ Fresh(Callers, MainCycles, 0)
    /\ PushIdle

MainConstruct ==
    \/ \E data \in RestValues : WarmReadOk(data)
    \/ WarmSleep
    \/ Seed

MainWorker ==
    \/ \E data \in RestValues : ReadOk(data)
    \/ LoadZero
    \/ LoadFactor
    \/ SendOk
    \/ SendErr
    \/ LogSendFail
    \/ Sleep

MainNext == MainConstruct \/ MainWorker \/ Consumer

MainSpec == MainInit /\ [][MainNext]_vars

(***************************************************************************)
(* The same constant readings with a stability queue of any capacity from  *)
(* 2 to MaxStableCap and a one-sample smoothing queue.                     *)
(***************************************************************************)
MaxStableCap == 3

ConstInit ==
    /\ bq_cap = 1
    /\ sq_cap \in 2..MaxStableCap
    /\ factor \in MainFactors
    /\ Fresh(Callers, MainCycles, 0)
    /\ PushIdle

ConstSpec == ConstInit /\ [][MainNext]_vars

(***************************************************************************)
(* Readings that move between two values, classified over stability        *)
(* windows of two or more entries, with failing reads, a receiver that may *)
(* go away and the button; the scale factor starts at 0.0 or 1.0 and       *)
(* changes when set_transform_factor is called.                            *)
(***************************************************************************)
DriftInit ==
    /\ bq_cap = 1
    /\ sq_cap \in 2..MaxStableCap
    /\ factor \in InitFactors
    /\ Fresh(Callers, MaxCycles, MaxCtl)
    /\ PushIdle

DriftSpec == DriftInit /\ [][Next]_vars

(***************************************************************************)
(* Warm-up with readings of both signs (the HX711 value is signed) into    *)
(* smoothing windows of several capacities, followed by the first cycles;  *)
(* the button is never pressed.                                            *)
(***************************************************************************)
WarmCap == 2

WarmCycles == 1

WarmValues == {-3, 2}

WarmInit ==
    /\ bq_cap \in 0..WarmCap
    /\ sq_cap = 1
    /\ factor = <<0, 1, 0>>
    /\ Fresh(Callers, WarmCycles, 0)
    /\ PushIdle

WarmConstruct ==
    \/ \E data \in WarmValues : WarmReadOk(data)
    \/ WarmReadErr
    \/ WarmSleep
    \/ Seed

WarmWorker ==
    \/ \E data \in WarmValues : ReadOk(data)
    \/ ReadErr
    \/ LoadZero
    \/ LoadFactor
    \/ SendOk
    \/ SendErr
    \/ LogSendFail
    \/ Sleep

WarmNext == WarmConstruct \/ WarmWorker \/ Consumer

WarmSpec == WarmInit /\ [][WarmNext]_vars

(***************************************************************************)
(* The calibration procedure: an empty platform reads 30000, a reference   *)
(* load of 100 g reads 130000; set_tare_weight and set_transform_factor    *)
(* take &self on a Sync processor, so two threads may be inside them at    *)
(* once.  The reads succeed and main has entered its receive loop.         *)
(***************************************************************************)
CalCycles == 2

CalCalls == 2

CalValues == {30000, 130000}

CalCallers == {1, 2}

CalInit ==
    /\ bq_cap = 1
    /\ sq_cap = 1
    /\ factor = <<0, 1, 0>>
    /\ Fresh(CalCallers, CalCycles, CalCalls)
    /\ PushIdle

CalConstruct ==
    \/ \E data \in CalValues : WarmReadOk(data)
    \/ WarmSleep
    \/ Seed

CalWorker ==
    \/ \E data \in CalValues : ReadOk(data)
    \/ LoadZero
    \/ LoadFactor
    \/ SendOk
    \/ SleepCalib
    \/ Sleep

CalConsumer == RegisterOk \/ Recv

CalNext == CalConstruct \/ CalWorker \/ CalConsumer \/ Control

CalSpec == CalInit /\ [][CalNext]_vars

(***************************************************************************)
(* Readings at the ends of the HX711 output range.  The converter holds    *)
(* one extreme during the warm-up and one extreme afterwards, so that the  *)
(* smoothing window passes from all-one-extreme through every mixture to   *)
(* all-the-other-extreme.  Either the smoothing window has the largest     *)
(* capacity considered and the button is never pressed, or both windows    *)
(* have capacity 1 and the calibration procedure runs.  The reads succeed  *)
(* and main has entered its receive loop.                                  *)
(***************************************************************************)
MaxWindow == 255

\* the 24 bits clocked out of the HX711 are the most negative and the most
\* positive two's-complement values
ExtremeBits == {TwoTo24 \div 2, (TwoTo24 \div 2) - 1}

\* HX711::read without the sign extension
HX711_read_NoSignExtension(raw_data) == raw_data % TwoTo24

\* the tail of HX711::read: raw_data &= 0x00FFFFFF; if bit 23 is set the
\* high 8 bits are set as well; raw_data as i32 (a u32 of 0xFF000000 + x
\* reinterpreted as i32 is x - 2^24)
HX711_read(raw_data) ==
    LET masked == raw_data % TwoTo24
    IN  IF (masked \div (TwoTo24 \div 2)) % 2 = 1 THEN masked - TwoTo24 ELSE masked

ExtInit ==
    /\ factor = <<0, 1, 0>>
    /\ \/ /\ bq_cap = MaxWindow
          /\ sq_cap = MaxStableCap
          /\ Fresh(Callers, MaxWindow, 0)
       \/ /\ bq_cap = 1
          /\ sq_cap = 1
          /\ Fresh(Callers, CalCycles, CalCalls)
    /\ PushIdle

ExtConstruct ==
    \/ \E raw_data \in ExtremeBits :
          /\ bq # <<>> => HX711_read(raw_data) = bq[Len(bq)]
          /\ WarmReadOk(HX711_read(raw_data))
    \/ WarmSleep
    \/ Seed

ExtWorker ==
    \/ \E raw_data \in ExtremeBits :
          /\ cycles > 0 => HX711_read(raw_data) = bq[Len(bq)]
          /\ ReadOk(HX711_read(raw_data))
    \/ LoadZero
    \/ LoadFactor
    \/ SendOk
    \/ SleepCalib
    \/ Sleep

ExtNext == ExtConstruct \/ ExtWorker \/ CalConsumer \/ Control

ExtSpec == ExtInit /\ [][ExtNext]_vars

(***************************************************************************)
(* Properties.                                                             *)
(***************************************************************************)
Last(s) == s[Len(s)]

Min(a, b) == IF a < b THEN a ELSE b

\* sender.send has been called and cannot return: the buffer is full and the
\* Receiver is alive
SendBlocked == wpc = "send" /\ rxAlive /\ Len(chan) >= ChanCap

\* C1: the sampling thread never blocks when publishing a result: a send made
\* while an earlier result is still undelivered returns at once.
C1_ProducerNeverBlocks == ~SendBlocked

\* C2: a cycle whose read succeeds but whose transform fails (scale factor 0)
\* publishes the result (0, Error) in that cycle.
C2_CalibErrorPublished ==
    [][(wpc = "loadFactor" /\ wpc' = "sleepCalib")
         => published' = Append(published, ErrorResult)]_vars

\* C3: latest-wins: every receive yields the most recently published result
\* (a newer result overwrites an undelivered older one).
C3_ReceiveYieldsLatest ==
    [][received' # received
         => Last(received')[1] = Len(published)]_vars

\* C4: the results the consumer receives are a subsequence of the published
\* results in publication order, and a consumer that has drained the channel
\* has observed the last published result.
C4_InOrderAndFinal ==
    /\ \A i \in 1..Len(received) :
          /\ received[i][1] \in 1..Len(published)
          /\ received[i][2] = published[received[i][1]]
    /\ \A i, j \in 1..Len(received) :
          i < j => received[i][1] < received[j][1]
    /\ (rxAlive /\ chan = <<>> /\ wpc # "send" /\ published # <<>>)
          => (received # <<>> /\ Last(received)[1] = Len(published))

\* C4 witness: the sampling thread publishes its second result while the
\* first is still undelivered (it publishes faster than the consumer drains)
C4_Witness ==
    /\ wpc = "send"
    /\ rxAlive
    /\ Len(chan) = ChanCap
    /\ Len(published) >= 2

\* C5: a result is produced once per sampling cycle, whatever the outcome of
\* the cycle, so a consumer blocked in recv is served by every cycle.
C5_OneResultPerCycle == (wpc = "read") => Len(published) = cycles

\* a cycle has just failed: failed read, failed transform, or failed send
FailedState ==
    \/ wpc = "send" /\ ~readOk
    \/ wpc = "sleepCalib"
    \/ wpc = "sendFailed"

\* C6: after a failed read, a failed transform or a failed send the sampling
\* thread comes back to the head of its loop, where the next read is made.
C6_WorkerKeepsCycling == FailedState ~> (wpc = "read")

\* C6 witness: the thread is back at the head of its loop after a cycle with
\* a failed transform and a cycle with a failed read and a failed send
C6_Witness ==
    /\ wpc = "read"
    /\ cycles >= 2
    /\ published = <<ErrorResult>>
    /\ ~rxAlive
    /\ chan = <<>>
    /\ received = <<>>

\* C7: once set_transform_factor(w), w # 0, has returned Ok, no later cycle
\* with a successful read fails in the transform.
C7_CalibrateRecovers == (wpc = "sleepCalib") => ~cycCal

\* C8: the smoothing window and the stability window never exceed their
\* capacities, for any capacities given at construction.
C8_WindowsBounded == Len(bq) <= bq_cap /\ Len(sq) <= sq_cap

\* C9: after N pushes onto an empty window of capacity C the window holds the
\* last min(N, C) pushed values in push order.
C9_WindowContents ==
    LET n == Len(tpushed)
        k == Min(n, tcap)
    IN  tq = SubSeq(tpushed, n - k + 1, n)

\* C10: a cycle whose read fails hands (0, Error) to the channel and leaves
\* both windows and the latest average as they were, through the send and the
\* sleep, and ends at the head of the loop.
C10_FailedReadFrame ==
    [][/\ (wpc = "read" /\ wpc' = "send")
            => /\ wres' = ErrorResult
               /\ published' = Append(published, ErrorResult)
               /\ UNCHANGED <<bq, sq, latest>>
       /\ (~readOk /\ wpc \in {"send", "sendFailed", "sleep"})
            => /\ UNCHANGED <<bq, sq, latest>>
               /\ wpc' \in {wpc, "sendFailed", "sleep", "read"}
       /\ (~readOk /\ wpc = "send" /\ wpc' = "sleep")
            => chan' = Append(chan, <<Len(published), ErrorResult>>)]_vars

\* C10 witness: a failed-read cycle has delivered (0, Error) to the channel
\* and sleeps, with samples in the smoothing window
C10_Witness ==
    /\ wpc = "sleep"
    /\ ~readOk
    /\ chan # <<>>
    /\ Last(chan)[2] = ErrorResult
    /\ bq # <<>>
    /\ cycles >= 2

\* C11: the status published with a transformed weight w is Underload when
\* w < 0 whatever the stability window holds, else Overload when w > 5000,
\* else Stable when the stability classifier holds and Unstable when not
\* (0 and 5000 are classified by stability).
C11_StatusPriority ==
    [][(wpc = "loadFactor" /\ wpc' = "send")
         => LET w == wres'[1]
                status == wres'[2]
                classifier == is_stable(sq, sq_cap, wzo, factor)
            IN  /\ w < 0 => status = "Underload"
                /\ (w >= 0 /\ w > MaxWeight) => status = "Overload"
                /\ (w >= 0 /\ w <= MaxWeight /\ classifier) => status = "Stable"
                /\ (w >= 0 /\ w <= MaxWeight /\ ~classifier)
                      => status = "Unstable"]_vars

\* C11 witness: a negative weight is published as Underload in a cycle whose
\* stability window is full of equal weights (the classifier holds), after
\* a cycle published Underload with the classifier not holding
C11_Witness ==
    /\ wpc = "send"
    /\ Len(published) = 2
    /\ published[1] = <<-MaxWeight, "Underload">>
    /\ wres = <<-MaxWeight, "Underload">>
    /\ is_stable(sq, sq_cap, wzo, wtf)

\* every entry of the window transforms, and all transformed weights agree
AllEqualWeights(queue, zero_offset, transform_factor) ==
    /\ \A i \in 1..Len(queue) :
          adc_data_transform(queue[i], zero_offset, transform_factor).ok
    /\ \A i, j \in 1..Len(queue) :
          adc_data_transform(queue[i], zero_offset, transform_factor).v
            = adc_data_transform(queue[j], zero_offset, transform_factor).v

\* C12: is_stable is true exactly when the stability window is full (it does
\* not hold fewer than capacity-many entries) and all its entries transform,
\* under the same zero offset and factor, to equal integer weights: fewer
\* entries than the capacity give false, any entry that differs (or does not
\* transform) gives false, a full window of equal weights gives true.
C12_StableIffFullAndEqual ==
    LET stable == is_stable(sq, sq_cap, zero, factor)
        equal == AllEqualWeights(sq, zero, factor)
    IN  /\ Len(sq) < sq_cap => ~stable
        /\ ~equal => ~stable
        /\ (~(Len(sq) < sq_cap) /\ equal) => stable

\* C12 witness: the window of capacity 2 is full of equal weights and the
\* classifier holds, one cycle after it was full of two differing weights
\* and the classifier did not hold
C12_Witness ==
    /\ sq_cap = 2
    /\ Len(sq) = sq_cap
    /\ is_stable(sq, sq_cap, zero, factor)
    /\ Len(published) = 2
    /\ published[1] = <<MaxWeight, "Unstable">>
    /\ published[2] = <<MaxWeight, "Stable">>

\* C13: with windows of 5 and 3 and a nonzero factor, after a warm-up whose
\* 10 reads all return 1000 the zero offset and the latest average are both
\* 1000; with every later read returning 1000 every published weight is 0,
\* and the status is Unstable until the stability window holds three equal
\* averages (the seed and two cycles) and Stable in every cycle from then on.
C13_RestScenario ==
    /\ Running => (zero = 1000 /\ latest = 1000)
    /\ (wpc = "seed") => bq = <<1000, 1000, 1000, 1000, 1000>>
    /\ \A i \in 1..Len(published) :
          /\ published[i][1] = 0
          /\ published[i][2] = IF i + 1 >= 3 THEN "Stable" ELSE "Unstable"
    /\ (Running /\ Len(sq) = 3) => sq = <<1000, 1000, 1000>>

\* C13 witness: four cycles have published: Unstable once, then Stable
C13_Witness ==
    /\ cycles = 4
    /\ wpc = "sleep"
    /\ published = << <<0, "Unstable">>, <<0, "Stable">>, <<0, "Stable">>,
                      <<0, "Stable">> >>
    /\ zero = 1000
    /\ Len(received) >= 3

\* a is the average of queue truncated toward zero (0 for an empty queue)
IsTruncatedAverage(a, queue) ==
    IF queue = <<>> THEN a = 0
    ELSE LET sum == SeqSum(queue)
             rest == sum - a * Len(queue)
         IN  /\ Abs(rest) < Len(queue)
             /\ rest # 0 => ((rest > 0) = (sum > 0))

\* C14: the warm-up makes its 10 reads, then the zero offset and the latest
\* average are both set to the truncated average of the smoothing window as
\* the warm-up reads filled it (0 if no read succeeded), and no steady-state
\* cycle starts before that.
C14_WarmupSeeding ==
    [][/\ (wpc = "seed") => wi = WarmupReads
       /\ (wpc = "seed" /\ wpc' # "seed")
            => /\ IsTruncatedAverage(zero', bq)
               /\ latest' = zero'
               /\ bq' = bq
               /\ wpc' = "read"
       /\ ~Running => (cycles = 0 /\ cycles' = 0 /\ published' = <<>>)]_vars

\* C14 witness: the loop is at its first read, seeded with 0, the average
\* -1/2 of a window holding -3 and 2 truncated toward zero
C14_Witness ==
    /\ wpc = "read"
    /\ cycles = 0
    /\ bq = <<-3, 2>>
    /\ zero = 0
    /\ latest = 0

\* C15: set_tare_weight has no failing outcome: it reads the latest average
\* and returns after storing that value as the zero offset; when the latest
\* average has not changed meanwhile the zero offset becomes the current
\* latest average, and a second call right after (no sample in between)
\* stores the same value again, changing nothing.
C15_TareIdempotent ==
    [][\A c \in DOMAIN cpc :
         /\ (cpc[c] = "idle" /\ cpc'[c] = "tareStore") => cla'[c] = latest
         /\ (cpc[c] = "tareStore" /\ cpc'[c] # "tareStore")
              => /\ cpc'[c] = "idle"
                 /\ zero' = cla[c]
                 /\ UNCHANGED <<latest, factor>>
                 /\ (cla[c] = latest) => zero' = latest
                 /\ (cla[c] = latest /\ zero = latest) => zero' = zero]_vars

\* C15 witness: two set_tare_weight calls have returned after the first
\* cycle and before the second: the first moved the zero offset from 30000
\* to 130000, the second left it there
C15_Witness ==
    /\ ctl = 2
    /\ \A c \in DOMAIN cpc : cpc[c] = "idle" /\ cret[c][1] = "none"
    /\ cycles = 1
    /\ bq = <<130000>>
    /\ latest = 130000
    /\ zero = 130000
    /\ Len(published) = 1
    /\ published[1][1] = 100000

\* C16: after the seeding the zero offset changes only when a
\* set_tare_weight call stores into it, and every cycle computes its weight
\* and its status with the zero offset stored last, unless that store came
\* after the cycle had loaded the zero offset; so a cycle that starts after
\* set_tare_weight has returned uses the value that call stored, until
\* another call replaces it.
C16_TareVisible ==
    [][/\ (zero' # zero)
            => \/ wpc = "seed"
               \/ \E c \in DOMAIN cpc :
                     cpc[c] = "tareStore" /\ cpc'[c] = "idle" /\ zero' = cla[c]
       /\ (wpc = "loadFactor" /\ wpc' # "loadFactor" /\ ~zoStored)
            => LET r == adc_data_transform(wavg, zero, factor)
               IN  IF r.ok
                   THEN /\ wpc' = "send"
                        /\ wres' = <<r.v, weight_status(r.v, sq, sq_cap, zero,
                                                        factor)>>
                   ELSE wpc' = "sleepCalib"]_vars

\* C16 witness: the first cycle weighed 130000 against the seeded offset
\* 30000; a set_tare_weight call then stored 130000 and returned, and the
\* second cycle weighs 130000 against it: weight 0
C16_Witness ==
    /\ wpc = "send"
    /\ cycles = 2
    /\ published = << <<100000, "Overload">>, <<0, "Stable">> >>
    /\ zero = 130000
    /\ wzo = 130000
    /\ ctl = 1
    /\ \A c \in DOMAIN cpc : cpc[c] = "idle" /\ cret[c][1] = "none"

\* C17: set_transform_factor(0) always returns Err: only calls with a nonzero
\* actual_weight get past the check and return Ok; the failing call loads and
\* stores nothing, so the factor, the zero offset, the latest average and
\* the whole state of the sampling thread and the channel are as if the call
\* had not been made.
C17_CalibrateZeroRejected ==
    [][/\ \A c \in DOMAIN cpc :
            /\ cpc[c] \in {"calLoadZero", "calStore"} => cref[c] # 0
            /\ (cret'[c] # cret[c] /\ cret'[c][1] = "Ok") => cref[c] # 0
            /\ (cret'[c] # cret[c] /\ cret'[c][1] = "Err")
                 => cpc[c] = "idle" /\ cpc' = cpc
       /\ (ctl' # ctl /\ cpc' = cpc)
            => /\ \E c \in DOMAIN cpc :
                    cret' = [cret EXCEPT ![c] = <<"Err", F32Zero>>]
               /\ UNCHANGED <<factor, zero, latest, workerVars, chan, rxAlive,
                              received, cla, czo, cref, calDone>>]_vars

\* C17 witness: a set_transform_factor(0) call returned Err between the two
\* cycles; the factor is still 1.0 and the second cycle has published
C17_Witness ==
    /\ cret[1] = <<"Err", F32Zero>>
    /\ ~calDone
    /\ factor = <<0, 1, 0>>
    /\ zero = 30000
    /\ published = << <<0, "Stable">>, <<100000, "Overload">> >>

\* the integer an f32 with a non-negative exponent stands for
F32IntValue(f) == (IF f[1] = 1 THEN -1 ELSE 1) * f[2] * Pow2(f[3])

\* C18: set_transform_factor(r) with r # 0 reads the latest average and the
\* zero offset, stores (latest average - zero offset) / r as the factor and
\* returns Ok with the factor it stored; with 130000, 30000 and r = 100 the
\* factor stored and returned is 1000.0.
C18_CalibrateStores ==
    [][\A c \in DOMAIN cpc :
         /\ (cpc[c] = "idle" /\ cpc'[c] = "calLoadZero")
              => cla'[c] = latest /\ cref'[c] # 0
         /\ (cpc[c] = "calLoadZero" /\ cpc'[c] # "calLoadZero")
              => cpc'[c] = "calStore" /\ czo'[c] = zero
         /\ (cpc[c] = "calStore" /\ cpc'[c] # "calStore")
              => /\ cpc'[c] = "idle"
                 /\ cret'[c] = <<"Ok", factor'>>
                 /\ factor'[3] >= 0
                 /\ F32IntValue(factor') * cref[c] = cla[c] - czo[c]
                 /\ (cla[c] = 130000 /\ czo[c] = 30000 /\ cref[c] = 100)
                      => factor' = <<0, 125, 3>>
                 /\ UNCHANGED <<zero, latest>>]_vars

\* C18 witness: set_transform_factor(100) was called with the latest average
\* 130000 and the zero offset 30000 and returned 1000.0; the next cycle
\* weighs the same load as 100
C18_Witness ==
    /\ cret[1] = <<"Ok", <<0, 125, 3>> >>
    /\ factor = <<0, 125, 3>>
    /\ zero = 30000
    /\ latest = 130000
    /\ ctl = 1
    /\ published = << <<100000, "Overload">>, <<100, "Stable">> >>

\* C19: with set_tare_weight and set_transform_factor calls of two threads
\* interleaving with each other and with the sampling thread: every step a
\* call takes is its next one toward its return (two steps for a tare, three
\* for a calibration) and what a call has loaded is not changed by any other
\* thread, so every call completes with its own result; each
\* set_transform_factor(r), r # 0, returns the factor it stores, which is
\* (a - z) / r for the values a and z it loaded from the latest average and
\* the zero offset during the call; and the stored factor changes only by
\* such a store, so the factor stored in the end is the one some call stored.
C19_ConcurrentControl ==
    [][/\ \A c \in DOMAIN cpc :
            /\ (cpc[c] # "idle" /\ cpc'[c] = cpc[c])
                 => (cla'[c] = cla[c] /\ czo'[c] = czo[c] /\ cref'[c] = cref[c])
            /\ (cpc[c] = "idle" /\ cpc'[c] # "idle")
                 => /\ cpc'[c] \in {"tareStore", "calLoadZero"}
                    /\ cla'[c] = latest
            /\ (cpc[c] = "tareStore" /\ cpc'[c] # "tareStore")
                 => cpc'[c] = "idle"
            /\ (cpc[c] = "calLoadZero" /\ cpc'[c] # "calLoadZero")
                 => (cpc'[c] = "calStore" /\ czo'[c] = zero)
            /\ (cpc[c] = "calStore" /\ cpc'[c] # "calStore")
                 => /\ cpc'[c] = "idle"
                    /\ cret'[c] = <<"Ok", factor'>>
                    /\ factor' = F32Div(I32ToF32(cla[c] - czo[c]),
                                        I32ToF32(cref[c]))
            /\ (cret'[c] # cret[c] /\ cret'[c][1] = "Ok")
                 => cpc[c] = "calStore"
       /\ (factor' # factor)
            => \E c \in DOMAIN cpc :
                  /\ cpc[c] = "calStore"
                  /\ cpc'[c] = "idle"
                  /\ cret'[c] = <<"Ok", factor'>>]_vars

\* C19 witness: two set_transform_factor(100) calls are in progress at once,
\* one having loaded the latest average before a sample and one after it;
\* both are about to store
C19_Witness ==
    /\ cpc[1] = "calStore"
    /\ cpc[2] = "calStore"
    /\ cla[1] = 30000
    /\ cla[2] = 130000
    /\ czo[1] = 30000
    /\ czo[2] = 30000

\* C20: no step of a control operation waits for the sampling thread and no
\* atomic access of the sampling thread waits for a control operation: in
\* every reachable state a call that has begun can take its next step
\* (wherever the sampling thread is), and the sampling thread can take its
\* store of the latest average, its load of the zero offset and its load of
\* the factor (whichever calls are in progress).
C20_LockFree ==
    /\ \A c \in DOMAIN cpc :
          /\ cpc[c] = "tareStore" => ENABLED TareStore(c)
          /\ cpc[c] = "calLoadZero" => ENABLED CalLoadZero(c)
          /\ cpc[c] = "calStore" => ENABLED CalStore(c)
    /\ (wpc = "read" /\ cycles < budget.cycles)
          => \A data \in CalValues : ENABLED ReadOk(data)
    /\ wpc = "loadZero" => ENABLED LoadZero
    /\ wpc = "loadFactor" => ENABLED LoadFactor

\* C20 witness: the sampling thread is between its store of the latest
\* average and its load of the zero offset while one thread is inside
\* set_tare_weight and another inside set_transform_factor
C20_Witness ==
    /\ wpc = "loadZero"
    /\ cpc[1] = "tareStore"
    /\ cpc[2] = "calStore"
    /\ cycles = 2

\* C21: each shared field is read and written whole.  The zero offset the
\* sampling thread loads is the value stored last, and that is the warm-up
\* average or the value a set_tare_weight call stored; the value such a call
\* stores is the latest average as it was at a moment of that call; the
\* factor the sampling thread loads is the value stored last, and that is
\* the construction value or the value a set_transform_factor call stored.
\* Nothing ties the two loads together.
C21_PerFieldAtomic ==
    [][/\ (wpc = "loadZero" /\ wpc' # "loadZero") => wzo' = zero
       /\ (wpc = "loadFactor" /\ wpc' # "loadFactor") => wtf' = factor
       /\ (zero' # zero)
            => \/ wpc = "seed" /\ wpc' = "read" /\ zero' = queue_average(bq)
               \/ \E c \in DOMAIN cpc :
                     cpc[c] = "tareStore" /\ cpc'[c] = "idle" /\ zero' = cla[c]
       /\ \A c \in DOMAIN cpc :
            /\ (cpc[c] = "idle" /\ cpc'[c] = "tareStore") => cla'[c] = latest
            /\ (cpc[c] = "tareStore" /\ cpc'[c] = "tareStore")
                 => cla'[c] = cla[c]
       /\ (factor' # factor)
            => \E c \in DOMAIN cpc :
                  /\ cpc[c] = "calStore"
                  /\ cpc'[c] = "idle"
                  /\ factor' = compute_factor(cla[c], czo[c], cref[c])
       /\ (~Running) => factor' = factor]_vars

\* C21 witness: the sampling thread has loaded the zero offset 30000; since
\* then a set_tare_weight call has stored 130000 and a
\* set_transform_factor(100) call has stored 1000.0, so the load of the
\* factor that comes next pairs the new factor with the old zero offset
C21_Witness ==
    /\ wpc = "loadFactor"
    /\ wzo = 30000
    /\ zero = 130000
    /\ zoStored
    /\ factor = <<0, 125, 3>>
    /\ ~cycCal
    /\ calDone

\* C22: a step of set_tare_weight changes no shared data but the zero offset
\* and a step of set_transform_factor none but the factor; no step of a
\* control operation changes the smoothing window, the stability window or
\* the latest average, which only new and the sampling thread change; and
\* once new has returned the sampling thread changes neither the zero offset
\* nor the factor.
C22_SingleWriter ==
    [][/\ \A c \in DOMAIN cpc :
            /\ (cpc'[c] # cpc[c] /\ "tareStore" \in {cpc[c], cpc'[c]})
                 => UNCHANGED <<factor, latest, bq, sq>>
            /\ (cpc'[c] # cpc[c] /\ "tareStore" \notin {cpc[c], cpc'[c]})
                 => UNCHANGED <<zero, latest, bq, sq>>
       /\ (ctl' # ctl /\ cpc' = cpc) => UNCHANGED <<zero, factor>>
       /\ (ctl' # ctl \/ cpc' # cpc)
            => UNCHANGED <<latest, bq, sq, wpc, wavg, wzo, wtf, wres, chan,
                           published>>
       /\ (latest' # latest \/ bq' # bq \/ sq' # sq)
            => (wpc \in {"warmRead", "seed", "read"} /\ wpc' # wpc)
       /\ (Running /\ wpc' # wpc) => UNCHANGED <<zero, factor>>]_vars

\* C22 witness: a set_transform_factor(100) call and a set_tare_weight call
\* have returned after the first cycle: factor and zero offset are new, the
\* windows and the latest average are as the cycle left them
C22_Witness ==
    /\ ctl = 2
    /\ \A c \in DOMAIN cpc : cpc[c] = "idle"
    /\ cycles = 1
    /\ wpc = "sleep"
    /\ zero = 130000
    /\ factor = <<0, 125, 3>>
    /\ bq = <<130000>>
    /\ sq = <<130000>>
    /\ latest = 130000

\* C23: a raw read is never followed by the next raw read without a
\* thread::sleep(100ms) in between: the step that leaves a read position
\* never enters a read position, a warm-up read position and the seeding are
\* entered only by the sleep that closes a warm-up iteration, and the
\* sampling loop's read position only by the seeding (after the last warm-up
\* sleep), by the sleep at the end of the loop body or by the sleep of the
\* calibration-error path.
C23_SleepBetweenReads ==
    [][/\ (wpc \in {"warmRead", "read"} /\ wpc' # wpc)
            => wpc' \notin {"warmRead", "read", "seed"}
       /\ (wpc' = "warmRead" /\ (wpc # "warmRead" \/ wi' # wi))
            => wpc = "warmSleep"
       /\ (wpc' = "seed" /\ wpc # "seed") => wpc = "warmSleep"
       /\ (wpc' = "read" /\ wpc # "read")
            => wpc \in {"seed", "sleep", "sleepCalib"}]_vars

\* C23 witness: with factor 0.0 and no control call the first cycle ended in
\* the calibration error and published nothing; the second read has been made
C23_Witness ==
    /\ cycles = 2
    /\ readOk
    /\ wpc = "loadZero"
    /\ ctl = 0
    /\ F32IsZero(factor)
    /\ published = <<>>

\* C24: adc_data_transform called with a factor equal to zero (0.0 or -0.0)
\* returns Err, whatever the raw value and the zero offset, and no weight.
C24_ZeroFactorFails ==
    (tret # <<>> /\ targs # <<>> /\ F32IsZero(targs[3]))
        => (~tret[1].ok /\ tret[1] = Err)

\* C24 witness: the call made with raw value 5, zero offset 2 and factor -0.0
C24_Witness ==
    /\ targs = <<5, 2, <<1, 0, 0>>>>
    /\ tret = <<Err>>

\* floor(n * 2^k / d) for n >= 0 and d > 0, by long division, so that no
\* intermediate value exceeds 2 * d; t = <<q, r, d, k>> with q = n \div d and
\* r = n % d at the start
ScaledQuotientFn[t \in Nat \X Nat \X Nat \X Nat] ==
    IF t[4] = 0 THEN t[1]
    ELSE ScaledQuotientFn[<<2 * t[1] + (2 * t[2]) \div t[3], (2 * t[2]) % t[3],
                            t[3], t[4] - 1>>]

\* the integer nearest to the exact quotient n / f of an integer n by a
\* nonzero f32 f, halves away from zero: floor((floor(2|n| / |f|) + 1) / 2)
\* with the sign of the quotient
ExactRound(n, f) ==
    LET twice == IF f[3] >= 0
                 THEN (2 * Abs(n)) \div (f[2] * Pow2(f[3]))
                 ELSE ScaledQuotientFn[<<Abs(n) \div f[2], Abs(n) % f[2], f[2],
                                         1 - f[3]>>]
        mag == (twice + 1) \div 2
    IN  IF (n < 0) = (f[1] = 1) THEN mag ELSE -mag

\* r is the integer nearest to the f32 value q, halves away from zero:
\* r has the sign of q (or is 0) and |r| - 1/2 <= |q| < |r| + 1/2
IsRoundHalfAway(r, q) ==
    /\ r > 0 => q[1] = 0
    /\ r < 0 => q[1] = 1
    /\ IF q[3] >= 0 THEN Abs(r) = q[2] * Pow2(q[3])
       ELSE IF -q[3] > 25 THEN r = 0
       ELSE /\ Abs(r) <= q[2] \div Pow2(-q[3]) + 1
            /\ (2 * Abs(r) - 1) * Pow2(-q[3]) <= 2 * q[2]
            /\ 2 * q[2] < (2 * Abs(r) + 1) * Pow2(-q[3])

\* C25 as stated: for a nonzero factor the call returns the exact quotient
\* (raw - zero_offset) / scale_factor rounded to the nearest integer, halves
\* away from zero.
C25_ExactQuotientRounded ==
    (tret # <<>> /\ targs # <<>> /\ ~F32IsZero(targs[3]))
        => /\ tret[1].ok
           /\ tret[1].v = ExactRound(targs[1] - targs[2], targs[3])

\* C25, amended: for a nonzero factor the call returns the single-precision
\* quotient of (raw - zero_offset) as f32 by the factor, rounded to the
\* nearest integer with halves away from zero, for either sign; where that
\* quotient is exact (here: the factors that are powers of two) this is the
\* exact quotient rounded.
C25_F32QuotientRounded ==
    (tret # <<>> /\ targs # <<>> /\ ~F32IsZero(targs[3]))
        => /\ tret[1].ok
           /\ IsRoundHalfAway(tret[1].v,
                              F32Div(I32ToF32(targs[1] - targs[2]), targs[3]))
           /\ targs[3][2] = 1
                => tret[1].v = ExactRound(targs[1] - targs[2], targs[3])

\* C25 witness: (-3 - 2) / 2.0 = -2.5 has been rounded to -3
C25_Witness ==
    /\ targs = <<-3, 2, <<0, 1, 1>>>>
    /\ tret = <<Ok(-3)>>

\* the exact product w * f of an integer w and an f32 f, rounded to the
\* nearest integer with halves away from zero
RoundProduct(w, f) ==
    LET mag == IF f[3] >= 0 THEN Abs(w) * f[2] * Pow2(f[3])
               ELSE (2 * Abs(w) * f[2] + Pow2(-f[3])) \div (2 * Pow2(-f[3]))
    IN  IF (w < 0) = (f[1] = 1) THEN mag ELSE -mag

\* weights whose raw value can lie among TransformRaws
TransformWeights == (-4 * MaxRaw)..(4 * MaxRaw)

\* |f| >= 1/2 for an f32 f
F32AtLeastHalf(f) ==
    /\ f[2] # 0
    /\ \/ f[3] >= -1
       \/ -f[3] <= 24 /\ 2 * f[2] >= Pow2(-f[3])

\* C26 as stated: for every nonzero factor f, every weight w and zero offset
\* z, adc_data_transform(z + round(w * f), z, f) differs from w by at most 1.
C26_RoundTripAnyFactor ==
    (tret # <<>> /\ targs # <<>> /\ ~F32IsZero(targs[3]))
        => \A w \in TransformWeights :
              targs[1] = targs[2] + RoundProduct(w, targs[3])
                  => (tret[1].ok /\ Abs(tret[1].v - w) <= 1)

\* C26, amended: for every factor f with |f| >= 1/2, every weight w and zero
\* offset z, adc_data_transform(z + round(w * f), z, f) differs from w by at
\* most 1.
C26_RoundTripFactorAtLeastHalf ==
    (tret # <<>> /\ targs # <<>> /\ F32AtLeastHalf(targs[3]))
        => \A w \in TransformWeights :
              targs[1] = targs[2] + RoundProduct(w, targs[3])
                  => (tret[1].ok /\ Abs(tret[1].v - w) <= 1)

\* C26 witness: w = 5, z = 2, f = 0.5: round(2.5) = 3, the raw value is 5 and
\* the call has returned 6
C26_Witness ==
    /\ targs = <<5, 2, <<0, 1, -1>>>>
    /\ targs[1] = targs[2] + RoundProduct(5, targs[3])
    /\ tret = <<Ok(6)>>

\* C27: queue_average returns 0 for an empty queue and otherwise the sum of
\* the entries divided by their number, truncated toward zero, also when the
\* sum is negative.
C27_AverageTruncates ==
    (tret # <<>> /\ targs = <<>>)
        => /\ IsTruncatedAverage(tret[1], tq)
           /\ tq = <<>> => tret[1] = 0
           /\ (tq # <<>> /\ SeqSum(tq) < 0)
                => tret[1] = -((-SeqSum(tq)) \div Len(tq))

\* C27 witness: the average of -3, -1, -1 is -5/3, returned as -1
C27_Witness ==
    /\ tq = <<-3, -1, -1>>
    /\ tret = <<-1>>

\* C28: every tuple the sampling thread hands to send has one of the five
\* statuses; with Error its weight is 0, with Underload it is negative, with
\* Overload it is above 5000, and with Stable or Unstable it is between 0
\* and 5000.
C28_PublishedResult ==
    \A i \in 1..Len(published) :
        LET weight == published[i][1]
            status == published[i][2]
        IN  /\ status \in {"Error", "Underload", "Overload", "Stable", "Unstable"}
            /\ status = "Error" => weight = 0
            /\ status = "Underload" => weight < 0
            /\ status = "Overload" => weight > MaxWeight
            /\ status \in {"Stable", "Unstable"}
                 => (0 <= weight /\ weight <= MaxWeight)

\* C28 witness: seeded with zero offset 5000, the loop has read 0 (weight
\* -5000), failed to read, and read 5000 (weight 0)
C28_Witness ==
    /\ Len(published) = 3
    /\ published[1] = <<-MaxWeight, "Underload">>
    /\ published[2] = <<0, "Error">>
    /\ published[3] = <<0, "Unstable">>

\* C29: in a cycle the sampling thread loads the zero offset once and the
\* factor once, in this order and only after the read has stored the latest
\* average; the weight it publishes is the transform of the cycle's average
\* with the loaded pair and the status is derived with the same pair, also
\* when a control operation has stored a new value since the load.
C29_OneLoadedPair ==
    [][/\ (wpc' = "loadZero" /\ wpc # "loadZero")
            => (wpc = "read" /\ latest' = wavg' /\ cycles' = cycles + 1)
       /\ (wpc = "loadZero" /\ wpc' # "loadZero")
            => (wpc' = "loadFactor" /\ wzo' = zero /\ wtf' = wtf)
       /\ (wpc' = "loadFactor" /\ wpc # "loadFactor") => wpc = "loadZero"
       /\ (wpc = "loadFactor" /\ wpc' # "loadFactor")
            => /\ wtf' = factor
               /\ wzo' = wzo
               /\ wpc' \in {"send", "sleepCalib"}
               /\ wpc' = "sleepCalib" <=> F32IsZero(wtf')
               /\ wpc' = "send"
                    => LET r == adc_data_transform(wavg, wzo, wtf')
                       IN  /\ r.ok
                           /\ wres' = <<r.v, weight_status(r.v, sq, sq_cap, wzo,
                                                           wtf')>>
                           /\ published' = Append(published, wres')
       /\ (wzo' # wzo \/ wtf' # wtf)
            => wpc \in {"loadZero", "loadFactor", "sleep", "sleepCalib"}]_vars

\* C29 witness: the zero offset 30000 was loaded, a tare then stored 130000,
\* and the cycle has published 100 g, Stable, computed from 130000 with the
\* loaded 30000 and factor 1000.0
C29_Witness ==
    /\ wpc = "send"
    /\ wavg = 130000
    /\ wzo = 30000
    /\ zero = 130000
    /\ wtf = <<0, 125, 3>>
    /\ wres = <<100, "Stable">>
    /\ Last(published) = wres

\* C30: a successful read pushes the sample into the smoothing queue, stores
\* the average as the latest average and pushes it into the stability queue
\* before the zero offset and the factor are loaded; the loads and the
\* transform change none of the three, so a cycle that ends in the
\* calibration error has updated both queues and the latest average.
C30_UpdateBeforeLoads ==
    [][/\ (wpc = "read" /\ wpc' = "loadZero")
            => /\ bq' # <<>>
               /\ bq' = queue_push(bq, bq_cap, Last(bq'))
               /\ latest' = queue_average(bq')
               /\ sq' = queue_push(sq, sq_cap, latest')
               /\ wzo' = wzo /\ wtf' = wtf
       /\ (wpc \in {"loadZero", "loadFactor", "sleepCalib"})
            => UNCHANGED <<bq, sq, latest>>
       /\ (wpc' = "sleepCalib" /\ wpc # "sleepCalib")
            => /\ wpc = "loadFactor"
               /\ readOk
               /\ latest' = wavg'
               /\ latest' = queue_average(bq')
               /\ sq' # <<>> /\ Last(sq') = latest'
               /\ published' = published]_vars

\* C30 witness: with factor 0.0 two cycles have read 5000 and 5001 and ended
\* in the calibration error: nothing is published, and the queues and the
\* latest average hold the new samples
C30_Witness ==
    /\ wpc = "sleepCalib"
    /\ cycles = 2
    /\ F32IsZero(factor)
    /\ published = <<>>
    /\ bq = <<5001>>
    /\ sq = <<5000, 5001>>
    /\ latest = 5001

\* the last n entries of s (all of s if it has fewer)
LastN(s, n) == SubSeq(s, Len(s) - Min(n, Len(s)) + 1, Len(s))

\* C31: the warm-up makes exactly 10 read attempts, each followed by the
\* settle delay; a failed attempt leaves the smoothing window as it was and
\* is not repeated (the attempt counter goes on), a successful one appends
\* its sample and keeps the last capacity-many successful samples in order.
C31_WarmupAttempts ==
    [][/\ (wpc = "warmRead" /\ wpc' # "warmRead")
            => /\ wpc' = "warmSleep"
               /\ wi' = wi
               /\ \/ bq' = bq
                  \/ \E data \in WarmValues :
                        bq' = LastN(Append(bq, data), bq_cap)
       /\ (wpc = "warmSleep" /\ wpc' # "warmSleep")
            => /\ wi' = wi + 1
               /\ bq' = bq
               /\ wpc' = IF wi' < WarmupReads THEN "warmRead" ELSE "seed"
       /\ wpc = "seed" => wi = WarmupReads
       /\ wpc \in {"warmRead", "warmSleep"} => wi < WarmupReads]_vars

\* C32: a push onto a queue whose length L is at or above the capacity C
\* leaves exactly C entries: the pushed value last and, before it, the C - 1
\* entries that were newest, in order (the L - C + 1 oldest are evicted).
C32_EvictionUnderOverflow ==
    [][(tpushed' # tpushed /\ Len(tq) >= tcap)
          => /\ Len(tq') = tcap
             /\ Last(tq') = Last(tpushed')
             /\ SubSeq(tq', 1, tcap - 1) = LastN(tq, tcap - 1)]_vars

\* C33: is_stable called with a factor equal to zero on a window that holds
\* at least capacity-many entries (and at least one, whose transform fails)
\* returns false: the failure of the transform does not leave the call.
C33_ClassifierSwallowsError ==
    (tret # <<>> /\ targs # <<>>)
        => /\ tret[1] \in BOOLEAN
           /\ (F32IsZero(targs[4]) /\ targs[1] # <<>>
                  /\ Len(targs[1]) >= targs[2])
                => /\ ~adc_data_transform(targs[1][1], targs[3], targs[4]).ok
                   /\ tret[1] = FALSE

\* C33 witness: the window 4, 4 of capacity 2, which is stable under any
\* nonzero factor, has been classified with factor 0.0
C33_Witness ==
    /\ targs = <<<<4, 4>>, 2, 0, F32Zero>>
    /\ tret = <<FALSE>>

\* C34: Status::from decodes the working mode from bits 6 and 5 of the
\* status byte as the field's documentation says: 00 is NOR, 01 is CYC and
\* 1x is CMD.
C34_StatusModeDecoding ==
    (tret # <<>> /\ targs # <<>>)
        => tret[1].mode = IF BitSet(targs[1], 6) THEN "CMD"
                          ELSE IF BitSet(targs[1], 5) THEN "CYC"
                          ELSE "NOR"

\* C35: when the sampling thread publishes (w, Stable), the stability queue
\* is full (it holds capacity-many entries; not fewer, for capacity 0), its
\* newest entry is the average of this cycle, and every entry transforms
\* with the zero offset and the factor loaded in this cycle to exactly w.
C35_StableAgreesWithWeight ==
    [][(wpc = "loadFactor" /\ wpc' = "send" /\ wres'[2] = "Stable")
         => /\ Last(published') = wres'
            /\ sq' = sq
            /\ Len(sq) >= sq_cap
            /\ sq_cap >= 1 => Len(sq) = sq_cap
            /\ sq # <<>>
            /\ Last(sq) = wavg
            /\ wavg = latest
            /\ \A i \in 1..Len(sq) :
                  LET r == adc_data_transform(sq[i], wzo, wtf')
                  IN  r.ok /\ r.v = wres'[1]]_vars

\* C35 witness: seeded with zero offset 0, the loop has read 5000 twice: the
\* queue of capacity 2 holds 5000, 5000 and the second cycle has published
\* (5000, Stable)
C35_Witness ==
    /\ wpc = "send"
    /\ wres = <<MaxWeight, "Stable">>
    /\ sq = <<MaxWeight, MaxWeight>>
    /\ wzo = 0
    /\ Len(published) = 2

\* C36: whenever the sampling thread is at the head of its loop or in the
\* sleep that ends a cycle (after the seeding, after a published cycle, after
\* a failed read and after a calibration error), the latest average is the
\* truncated average of the smoothing queue and the newest entry of the
\* stability queue.
C36_LatestTracksWindows ==
    (wpc \in {"read", "sleep", "sleepCalib"})
        => /\ IsTruncatedAverage(latest, bq)
           /\ sq # <<>>
           /\ Last(sq) = latest

\* C36 witness: seeded with 0 and factor 0.0, the first cycle read 4 and
\* ended in the calibration error, the second failed to read; the loop is
\* at its head again
C36_Witness ==
    /\ wpc = "read"
    /\ cycles = 2
    /\ F32IsZero(factor)
    /\ zero = 0
    /\ latest = 4
    /\ bq = <<4>>
    /\ published = <<ErrorResult>>

\* C37: new pushes the initial average into the stability queue, so the
\* sampling loop starts with exactly one entry in it; with every read
\* returning the same value and a stability queue of capacity K >= 2, the
\* cycles before cycle K - 1 publish Unstable and cycle K - 1 and those
\* after it publish Stable.
C37_PreSeededStability ==
    /\ (wpc = "read" /\ cycles = 0)
         => (Len(sq) = 1 /\ sq[1] = latest /\ sq[1] = zero)
    /\ Running => Len(published) <= cycles
    /\ \A i \in 1..Len(published) :
          published[i][2] = IF i >= sq_cap - 1 THEN "Stable" ELSE "Unstable"

\* C37 witness: with capacity 3 the first cycle has published Unstable and
\* the second Stable
C37_Witness ==
    /\ sq_cap = 3
    /\ cycles = 2
    /\ wpc = "send"
    /\ published = << <<0, "Unstable">>, <<0, "Stable">> >>


\* the signed 24-bit range of an HX711 sample
InSampleRange(x) == -(TwoTo24 \div 2) <= x /\ x <= (TwoTo24 \div 2) - 1

\* C38: no 32-bit overflow.  With raw samples in the signed 24-bit range
\* [-2^23, 2^23 - 1] (what HX711::read returns) and windows of at most
\* MaxWindow entries, LatestAverage and zero_offset stay within the sample
\* range in every reachable state, the i32 sum taken by queue_average stays
\* within the signed 32-bit range (its quotient by the length is again a
\* sample-range value), and every subtraction (average - zero_offset) made
\* by the worker's transform, by the classifier's transforms and by
\* set_transform_factor is smaller than 2^24 in magnitude, hence within the
\* signed 32-bit range.
C38_NoOverflow ==
    /\ InSampleRange(latest)
    /\ InSampleRange(zero)
    /\ Len(bq) <= MaxWindow
    /\ Len(sq) <= MaxWindow
    /\ \A i \in 1..Len(bq) : InSampleRange(bq[i])
    /\ \A i \in 1..Len(sq) : InSampleRange(sq[i])
    /\ bq # <<>> =>
          /\ I32Min <= SeqSum(bq) /\ SeqSum(bq) <= I32Max
          /\ InSampleRange(TruncDiv(SeqSum(bq), Len(bq)))
    /\ InSampleRange(wavg)
    /\ InSampleRange(wzo)
    /\ Abs(wavg - wzo) < TwoTo24
    /\ \A i \in 1..Len(sq) : Abs(sq[i] - wzo) < TwoTo24
    /\ Abs(latest - zero) < TwoTo24
    /\ \A c \in DOMAIN cla :
          /\ InSampleRange(cla[c])
          /\ InSampleRange(czo[c])
          /\ Abs(cla[c] - czo[c]) < TwoTo24
          /\ I32Min <= cla[c] - czo[c] /\ cla[c] - czo[c] <= I32Max

\* a full window of the largest capacity holding only the most negative
\* sample, against a zero offset that is the most positive sample: the sum
\* and the difference are both at their extremes
C38_Witness ==
    /\ wpc = "send"
    /\ Len(bq) = MaxWindow
    /\ Len(bq) = bq_cap
    /\ \A i \in 1..Len(bq) : bq[i] = -(TwoTo24 \div 2)
    /\ wavg = -(TwoTo24 \div 2)
    /\ wzo = (TwoTo24 \div 2) - 1


\* C39: the classifier's failure branch is unreachable from the worker.  In
\* a cycle whose top-level transform fails nothing is classified or
\* published; in a cycle whose top-level transform succeeds the classifier
\* gets the same loaded zero offset and scale factor, the factor is not
\* zero, so the transform of every stability-window entry succeeds, and an
\* Unstable result is published only when the stability window holds fewer
\* entries than its capacity or two of its entries transform to different
\* weights.
C39_ClassifierNeverFails ==
    [][(wpc = "loadFactor" /\ wpc' # wpc)
         => IF adc_data_transform(wavg, wzo, wtf').ok
            THEN /\ wpc' = "send"
                 /\ published' = Append(published, wres')
                 /\ wres'[1] = adc_data_transform(wavg, wzo, wtf').v
                 /\ ~F32IsZero(wtf')
                 /\ \A i \in 1..Len(sq) : adc_data_transform(sq[i], wzo, wtf').ok
                 /\ wres'[2] = "Unstable"
                      => /\ wres'[1] \in 0..MaxWeight
                         /\ \/ Len(sq) < sq_cap
                            \/ \E i, j \in 1..Len(sq) :
                                  adc_data_transform(sq[i], wzo, wtf').v
                                    # adc_data_transform(sq[j], wzo, wtf').v
            ELSE /\ wpc' = "sleepCalib"
                 /\ published' = published
                 /\ wres' = wres]_vars

\* the worker is about to send an Unstable result for a full stability
\* window whose two entries transform, with a factor that
\* set_transform_factor stored during the run, to different weights
C39_Witness ==
    /\ wpc = "send"
    /\ wres = <<100, "Unstable">>
    /\ sq_cap = 2
    /\ sq = <<0, 4>>
    /\ wzo = 0
    /\ wtf # <<0, 1, 0>>
    /\ ~F32IsZero(wtf)


\* C40: the stepper's sequence index stays in range.  After any sequence of
\* step, run_steps, set_step_mode (and release) calls current_step is less
\* than the length of the current step sequence, which is 8 in HalfStep and
\* 4 in the other modes; set_step_mode to a different mode leaves the new
\* mode with current_step 0, set_step_mode to the same mode changes
\* nothing; and step(Clockwise) followed by step(CounterClockwise) leaves
\* current_step where it was before the two calls.
C40_StepIndexInRange ==
    /\ current_step \in 0..(Len(step_sequence) - 1)
    /\ step_sequence = generate_step_sequence(step_mode)
    /\ Len(step_sequence) = IF step_mode = "HalfStep" THEN 8 ELSE 4
    /\ calls # <<>> =>
          LET c == calls[Len(calls)]
          IN  c.op = "set_step_mode" =>
                 IF c.arg # c.before.step_mode
                 THEN step_mode = c.arg /\ current_step = 0
                 ELSE /\ step_mode = c.before.step_mode
                      /\ current_step = c.before.current_step
                      /\ pins = c.before.pins
    /\ (/\ Len(calls) = 2
        /\ calls[1].op = "step" /\ calls[1].arg = "Clockwise"
        /\ calls[2].op = "step" /\ calls[2].arg = "CounterClockwise")
          => current_step = calls[1].before.current_step

\* a clockwise step from the last index of the half-step sequence wrapped
\* to 0 and the counter-clockwise step that followed wrapped back to 7
C40_Witness ==
    /\ Len(calls) = 2
    /\ calls[1].op = "step" /\ calls[1].arg = "Clockwise"
    /\ calls[1].before.current_step = 7
    /\ calls[2].op = "step" /\ calls[2].arg = "CounterClockwise"
    /\ calls[2].before.current_step = 0
    /\ step_mode = "HalfStep"
    /\ current_step = 7

=============================================================================
